---- MODULE Spec2Model ----
(***************************************************************************)
(* Model of the ngoogle Master: task service and scheduler, agent          *)
(* registry, provisioning engine.  Every SQL statement of the store is one *)
(* atomic step (the store opens a single connection); a handler that reads *)
(* and then writes is two or more steps, so that handlers running in       *)
(* different goroutines interleave between their statements.               *)
(***************************************************************************)
EXTENDS Integers, Sequences, FiniteSets, Bags, TLC

\* ------------------------------------------------------------------ bounds
MaxTasks == 1      \* task ids 1..MaxTasks
MaxTime == 1       \* the wall clock runs 0..MaxTime
MaxBytes == 1      \* bytes_total of a reported sample ranges over 0..MaxBytes
MaxSamples == 2    \* rows of task_metrics
MaxInflight == 2   \* HTTP handlers between two of their statements at once
MaxAgents == 2     \* rows of the agents table
MaxTokens == 3     \* tokens that generateToken hands out
MaxRate == 1       \* rate_mbps of a heartbeat ranges over 0..MaxRate
MaxBwSamples == 1  \* rows of bandwidth_samples
MaxJobs == 2       \* provision jobs ever created
MaxCreds == 1      \* credentials ever created
MaxRetries == 2    \* Retry calls that reset a job
MaxSharedLines == 6 \* lines in the log of a job while two workers run the job
MaxStoreSamples == 3 \* rows of bandwidth_samples written through the store alone
MaxClock == 3      \* recorded_at and cutoff of the store's callers range over 0..MaxClock
MaxUpHours == 1    \* hours that pass while the master runs
MaxDownDays == 8   \* days that pass while the master is stopped
MaxAssigned == 2   \* tasks assigned to the agent process
MaxExecs == 3      \* executors the agent process ever starts
MaxReq == 2        \* downloads an executor completes, and the bytes it counts
MaxElapsed == 1    \* seconds between two fills of the token bucket range over 0..MaxElapsed
MaxWaiters == 2    \* callers of Wait asleep at the same time
MaxPoints == 2     \* points of a traffic profile
MaxSchedClock == 15 \* seconds on the clock of the scheduler's ticker
MaxSweepClock == 45 \* seconds on the clock of the offline detection

HoursPerDay == 24        \* the clock of the retention model counts hours
RetentionHours == 168    \* RunPurge: 7 * 24 * time.Hour
PurgePeriodHours == 1    \* RunPurge: time.NewTicker(time.Hour)
TickPeriod == 5          \* Scheduler.Run: time.NewTicker(5 * time.Second)
BytesPerRateUnit == 8192  \* rateMbps * 1e6 / 8, for a rate unit of 0.065536 Mbps
MinCapacity == 65536     \* ratelimit.New: min 64 KB burst
SetRateBurst == 2        \* TokenBucket.SetRate: tb.capacity = bps * 2
PosInf == 1073741824     \* stands for the float64 +Inf, the rate of New(0, _):
                         \* (math.MaxFloat64 / 1e6) * 1e6 is above MaxFloat64
NaN == -1                \* stands for the float64 NaN, what fill gets for 0 * +Inf
ChunkBytes == 32768      \* downloadOnce: the 32 KB buffer passed to Wait
NoTime == -1       \* a NULL DATETIME column / nil *time.Time

TaskIds == 1..MaxTasks
Times == 0..MaxTime
AgentNames == {"a1", "a2"}

\* ------------------------------------------------------------------ state
VARIABLES
    now,          \* time.Now(), in seconds
    tasks,        \* table tasks: id -> row
    taskMetrics,  \* table task_metrics: sequence of rows (id = index)
    everRunning,  \* history: ids of the tasks whose stored status has been running
    tickQueue,    \* Scheduler.tick: the rows of its List still to be visited
    nextTick,     \* Scheduler.Run: the time of the ticker's next tick
    inflight,     \* bag of the handlers, sweeps and pulls between two of their steps
    resp,         \* the response of the handler that completed last
    agents,       \* table agents: id -> row
    bandwidth,    \* table bandwidth_samples: sequence of rows (id = index)
    nextToken,    \* generateToken: the next token it returns
    jobs,         \* table provision_jobs: id -> row
    workers,      \* bag of the goroutines executing Service.run
    credentials,  \* table credentials: id -> row
    nextCred,     \* newID for credentials: the number of the next id
    nextJob,      \* newID for provision jobs: the number of the next id
    retries,      \* history: the number of Retry calls that have reset a job
    masterUp,     \* the master process is running
    nextPurge,    \* RunPurge: the time of the ticker's next tick
    upHours,      \* history: hours passed while the master was running
    downDays,     \* history: days passed while the master was stopped
    agentPhase,   \* agent main: "loop" in the main loop, "exited" after it returned
    rootCancelled,\* agent main: cancel() of the root context has been called
    executors,    \* the goroutines in taskRunner.execute: [task, n, cancelled, pc]
    running,      \* taskRunner.running: task id -> n, the execution its cancel belongs to
    meters,       \* taskRunner.meters: the task ids that have a meter
    nextExec,     \* the number of the next execution
    exec,         \* one call of an executor's Run: task, position, context, result
    bucket,       \* the TokenBucket: tokens, capacity, rate (bytes, bytes, bytes/s)
    burst,        \* history: the burstMultiplier the bucket was made with
    waiters       \* bag of the calls of Wait asleep between two tries: [n]

taskVars == <<tasks, taskMetrics, everRunning, tickQueue, nextTick>>
regVars == <<agents, bandwidth, nextToken>>
provVars == <<jobs, workers, credentials, nextCred, nextJob>>
purgeVars == <<masterUp, nextPurge, upHours, downDays>>
procVars == <<agentPhase, rootCancelled, executors, running, meters, nextExec>>
bucketVars == <<bucket, burst, waiters>>
restVars == <<retries, purgeVars, procVars, exec, bucketVars>>
vars == <<now, tasks, taskMetrics, everRunning, tickQueue, nextTick, inflight, resp,
          agents, bandwidth, nextToken, jobs, workers, credentials, nextCred, nextJob,
          retries, masterUp, nextPurge, upHours, downDays,
          agentPhase, rootCancelled, executors, running, meters, nextExec, exec,
          bucket, burst, waiters>>

\* --------------------------------------------------------------- model.go
TaskStatusPending == "pending"
TaskStatusDispatched == "dispatched"
TaskStatusRunning == "running"
TaskStatusDone == "done"
TaskStatusFailed == "failed"
TaskStatusStopped == "stopped"

TerminalStatuses == {TaskStatusDone, TaskStatusFailed, TaskStatusStopped}
NonTerminalStatuses == {TaskStatusPending, TaskStatusDispatched, TaskStatusRunning}

NoResp == [op |-> "none"]

\* The bodies of POST /api/v1/tasks that the model sends.
CreateTaskRequests ==
    { [type |-> "static",  target_url |-> "u", agent_id |-> "a1", start_at |-> NoTime,
       end_at |-> 0, duration_sec |-> 0, total_bytes_target |-> 0],
      [type |-> "youtube", target_url |-> "u", agent_id |-> "a2", start_at |-> 1,
       end_at |-> NoTime, duration_sec |-> 1, total_bytes_target |-> 1],
      [type |-> "static",  target_url |-> "",  agent_id |-> "a1", start_at |-> NoTime,
       end_at |-> NoTime, duration_sec |-> 0, total_bytes_target |-> 0],
      [type |-> "ftp",     target_url |-> "u", agent_id |-> "a1", start_at |-> NoTime,
       end_at |-> NoTime, duration_sec |-> 0, total_bytes_target |-> 0] }

\* ------------------------------------------------------------- taskStore
\* The columns updated_at and created_at are left out: no operation reads
\* updated_at, and created_at only orders the lists.  Ids are handed out in
\* creation order, so ORDER BY created_at is the order of the ids.

\* taskStore.Get: the row is found
TaskFound(id) == id \in DOMAIN tasks

\* taskStore.Create: INSERT INTO tasks
TaskStoreCreate(ts, id, row) == ts @@ (id :> row)

\* taskStore.UpdateStatusWithTime: UPDATE tasks SET status=?,<field>=? WHERE id=?
UpdateStatusWithTime(ts, id, status, t, field) ==
    IF id \in DOMAIN ts
    THEN [ts EXCEPT ![id] = [[@ EXCEPT !.status = status] EXCEPT ![field] = t]]
    ELSE ts

\* taskStore.UpdateStatus: UPDATE tasks SET status=? WHERE id=?
UpdateStatus(ts, id, status) ==
    IF id \in DOMAIN ts THEN [ts EXCEPT ![id] = [@ EXCEPT !.status = status]] ELSE ts

\* taskStore.UpdateBytes: UPDATE tasks SET total_bytes_done=? WHERE id=?
UpdateBytes(ts, id, bytesTotal) ==
    IF id \in DOMAIN ts
    THEN [ts EXCEPT ![id] = [@ EXCEPT !.total_bytes_done = bytesTotal]]
    ELSE ts

\* taskStore.SetError: UPDATE tasks SET error_message=? WHERE id=?
SetError(ts, id, msg) ==
    IF id \in DOMAIN ts
    THEN [ts EXCEPT ![id] = [@ EXCEPT !.error_message = msg]]
    ELSE ts

\* the ids of a set in ascending order (ORDER BY created_at ASC)
RECURSIVE OrderAsc(_)
OrderAsc(ids) ==
    IF ids = {} THEN <<>>
    ELSE LET first == CHOOSE i \in ids : \A j \in ids : i <= j
         IN <<first>> \o OrderAsc(ids \ {first})

\* the ids of a set in descending order (ORDER BY created_at DESC)
RECURSIVE OrderDesc(_)
OrderDesc(ids) ==
    IF ids = {} THEN <<>>
    ELSE LET first == CHOOSE i \in ids : \A j \in ids : i >= j
         IN <<first>> \o OrderDesc(ids \ {first})

\* taskStore.ListByAgent: WHERE agent_id=? AND status IN (...) ORDER BY created_at ASC
ListByAgent(ts, agentID, statuses) ==
    OrderAsc({i \in DOMAIN ts : ts[i].agent_id = agentID /\ ts[i].status \in statuses})

\* taskStore.List: every row, ORDER BY created_at DESC; the caller gets copies
TaskList(ts) ==
    LET ids == OrderDesc(DOMAIN ts)
    IN [k \in 1..Len(ids) |-> [id |-> ids[k], row |-> ts[ids[k]]]]

\* the history variable follows the stored status
EverRunningAfter(ts) == everRunning \cup {i \in DOMAIN ts : ts[i].status = TaskStatusRunning}

\* ------------------------------------------------------------ TaskService
\* TaskService.Create: the request checks
CreateValid(req) == req.target_url # "" /\ req.type \in {"youtube", "static"}

\* TaskService.Create: the row written for a valid request
NewTask(req) ==
    [type |-> req.type, target_url |-> req.target_url, agent_id |-> req.agent_id,
     status |-> TaskStatusPending, start_at |-> req.start_at, end_at |-> req.end_at,
     duration_sec |-> req.duration_sec, total_bytes_target |-> req.total_bytes_target,
     total_bytes_done |-> 0, error_message |-> "",
     dispatched_at |-> NoTime, started_at |-> NoTime, finished_at |-> NoTime]

\* generateID: a fresh id (the next unused one)
FreshTaskId == Cardinality(DOMAIN tasks) + 1

\* mutant: every status that is not terminal may be dispatched
DispatchAllowedNonTerminal(status) == status \in NonTerminalStatuses

\* TaskService.Dispatch: the status check on the row it read
DispatchAllowed(status) == status = TaskStatusPending

\* mutant: the check forgets the status stopped
StopAllowedButStopped(status) == ~(status = TaskStatusDone \/ status = TaskStatusFailed)

\* TaskService.Stop: the status check on the row it read
StopAllowed(status) ==
    ~(status = TaskStatusDone \/ status = TaskStatusFailed \/ status = TaskStatusStopped)

\* TaskService.Dispatch: its UPDATE
Dispatch(ts, id) == UpdateStatusWithTime(ts, id, TaskStatusDispatched, now, "dispatched_at")

\* TaskService.Stop: its UPDATE
Stop(ts, id) == UpdateStatusWithTime(ts, id, TaskStatusStopped, now, "finished_at")

\* TaskService.MarkRunning
MarkRunning(ts, id) == UpdateStatusWithTime(ts, id, TaskStatusRunning, now, "started_at")

\* TaskService.MarkDone
MarkDone(ts, id) == UpdateStatusWithTime(ts, id, TaskStatusDone, now, "finished_at")

\* TaskService.MarkFailed: its second statement, after SetError
MarkFailed(ts, id) == UpdateStatusWithTime(ts, id, TaskStatusFailed, now, "finished_at")

\* TaskService.RecordMetrics: its first statement, RecordedAt and the Insert
RecordMetrics(ms, id, bytesTotal) ==
    Append(ms, [task_id |-> id, bytes_total |-> bytesTotal, recorded_at |-> now])

\* mutant: pending tasks are handed out too
PullTasksWithPending(ts, agentID) ==
    ListByAgent(ts, agentID, {TaskStatusPending, TaskStatusDispatched, TaskStatusRunning})

\* TaskService.PullTasks
PullTasks(ts, agentID) == ListByAgent(ts, agentID, {TaskStatusDispatched, TaskStatusRunning})

\* -------------------------------------------------------------- Scheduler
\* mutant: start_at is not looked at
shouldStartAlways(t, n) == TRUE

\* scheduler.shouldStart
shouldStart(t, n) ==
    IF t.start_at # NoTime /\ n < t.start_at THEN FALSE ELSE TRUE

\* mutant: the duration is not looked at
shouldStopNoDuration(t, n) ==
    IF t.end_at # NoTime /\ n > t.end_at THEN TRUE
    ELSE IF t.total_bytes_target > 0 /\ t.total_bytes_done >= t.total_bytes_target THEN TRUE
    ELSE FALSE

\* scheduler.shouldStop
shouldStop(t, n) ==
    IF t.end_at # NoTime /\ n > t.end_at THEN TRUE
    ELSE IF t.duration_sec > 0 /\ t.started_at # NoTime /\ n - t.started_at > t.duration_sec
    THEN TRUE
    ELSE IF t.total_bytes_target > 0 /\ t.total_bytes_done >= t.total_bytes_target THEN TRUE
    ELSE FALSE

\* mutant: the status is written without its timestamp
markRunningNoTime(ts, id) == UpdateStatus(ts, id, TaskStatusRunning)

\* Scheduler.markRunning
markRunning(ts, id) == UpdateStatusWithTime(ts, id, TaskStatusRunning, now, "started_at")

\* Scheduler.markStopped
markStopped(ts, id) == UpdateStatusWithTime(ts, id, TaskStatusStopped, now, "finished_at")

\* Scheduler.tick: the switch on one listed row t, with the tick's now n.
\* The row and n are fixed when the list is read, and so is the branch taken.
tickBranch(t, n) ==
    IF t.status = TaskStatusPending \/ t.status = TaskStatusDispatched
    THEN (IF shouldStart(t, n) THEN "markRunning" ELSE "skip")
    ELSE IF t.status = TaskStatusRunning
    THEN (IF shouldStop(t, n) THEN "markStopped" ELSE "skip")
    ELSE "skip"

\* Scheduler.tick: the list it iterates over, each row with its branch
tickList(ts, n) ==
    LET l == TaskList(ts)
    IN [k \in 1..Len(l) |-> [id |-> l[k].id, branch |-> tickBranch(l[k].row, n)]]

\* Scheduler.tick: one iteration of the loop
tickVisit(ts, e) ==
    IF e.branch = "markRunning" THEN markRunning(ts, e.id)
    ELSE IF e.branch = "markStopped" THEN markStopped(ts, e.id)
    ELSE ts

\* ---------------------------------------------------------------- actions
\* a handler between two of its statements
Enter(r) ==
    /\ BagCardinality(inflight) < MaxInflight
    /\ inflight' = inflight (+) SetToBag({r})

Leave(r) == inflight' = inflight (-) SetToBag({r})

\* every write of the tasks table
SetTasks(ts) ==
    /\ tasks' = ts
    /\ everRunning' = EverRunningAfter(ts)

\* time passes
Advance ==
    /\ now < MaxTime
    /\ now' = now + 1
    /\ resp' = NoResp
    /\ UNCHANGED inflight
    /\ UNCHANGED <<taskVars, regVars, provVars>>
    /\ UNCHANGED restVars

\* POST /api/v1/tasks
CreateTask(req) ==
    /\ FreshTaskId \in TaskIds
    /\ IF CreateValid(req)
       THEN /\ SetTasks(TaskStoreCreate(tasks, FreshTaskId, NewTask(req)))
            /\ resp' = [op |-> "create", id |-> FreshTaskId, ok |-> TRUE]
       ELSE /\ resp' = [op |-> "create", id |-> 0, ok |-> FALSE]
            /\ UNCHANGED <<tasks, everRunning>>
    /\ UNCHANGED <<now, taskMetrics, tickQueue, nextTick, inflight>>
    /\ UNCHANGED <<regVars, provVars>>
    /\ UNCHANGED restVars

\* POST /api/v1/tasks/{id}/dispatch: Get and the status check
DispatchGet(id) ==
    /\ IF TaskFound(id) /\ DispatchAllowed(tasks[id].status)
       THEN /\ Enter([op |-> "dispatch", id |-> id])
            /\ resp' = NoResp
       ELSE /\ resp' = [op |-> "dispatch", id |-> id, ok |-> FALSE]
            /\ UNCHANGED inflight
    /\ UNCHANGED <<now, taskVars>>
    /\ UNCHANGED <<regVars, provVars>>
    /\ UNCHANGED restVars

\* POST /api/v1/tasks/{id}/dispatch: the UPDATE
DispatchUpdate(id) ==
    /\ BagIn([op |-> "dispatch", id |-> id], inflight)
    /\ Leave([op |-> "dispatch", id |-> id])
    /\ SetTasks(Dispatch(tasks, id))
    /\ resp' = [op |-> "dispatch", id |-> id, ok |-> TRUE]
    /\ UNCHANGED <<now, taskMetrics, tickQueue, nextTick>>
    /\ UNCHANGED <<regVars, provVars>>
    /\ UNCHANGED restVars

\* POST /api/v1/tasks/{id}/stop: Get and the status check
StopGet(id) ==
    /\ IF TaskFound(id) /\ StopAllowed(tasks[id].status)
       THEN /\ Enter([op |-> "stop", id |-> id])
            /\ resp' = NoResp
       ELSE /\ resp' = [op |-> "stop", id |-> id, ok |-> FALSE]
            /\ UNCHANGED inflight
    /\ UNCHANGED <<now, taskVars>>
    /\ UNCHANGED <<regVars, provVars>>
    /\ UNCHANGED restVars

\* POST /api/v1/tasks/{id}/stop: the UPDATE
StopUpdate(id) ==
    /\ BagIn([op |-> "stop", id |-> id], inflight)
    /\ Leave([op |-> "stop", id |-> id])
    /\ SetTasks(Stop(tasks, id))
    /\ resp' = [op |-> "stop", id |-> id, ok |-> TRUE]
    /\ UNCHANGED <<now, taskMetrics, tickQueue, nextTick>>
    /\ UNCHANGED <<regVars, provVars>>
    /\ UNCHANGED restVars

\* TaskService.MarkRunning(id)
DoMarkRunning(id) ==
    /\ SetTasks(MarkRunning(tasks, id))
    /\ resp' = [op |-> "mark_running", id |-> id, ok |-> TRUE]
    /\ UNCHANGED <<now, taskMetrics, tickQueue, nextTick, inflight>>
    /\ UNCHANGED <<regVars, provVars>>
    /\ UNCHANGED restVars

\* TaskService.MarkDone(id)
DoMarkDone(id) ==
    /\ SetTasks(MarkDone(tasks, id))
    /\ resp' = [op |-> "mark_done", id |-> id, ok |-> TRUE]
    /\ UNCHANGED <<now, taskMetrics, tickQueue, nextTick, inflight>>
    /\ UNCHANGED <<regVars, provVars>>
    /\ UNCHANGED restVars

\* TaskService.MarkFailed(id, reason): SetError
DoMarkFailed(id) ==
    /\ Enter([op |-> "mark_failed", id |-> id])
    /\ SetTasks(SetError(tasks, id, "reason"))
    /\ resp' = NoResp
    /\ UNCHANGED <<now, taskMetrics, tickQueue, nextTick>>
    /\ UNCHANGED <<regVars, provVars>>
    /\ UNCHANGED restVars

\* TaskService.MarkFailed(id, reason): UpdateStatusWithTime
DoMarkFailedUpdate(id) ==
    /\ BagIn([op |-> "mark_failed", id |-> id], inflight)
    /\ Leave([op |-> "mark_failed", id |-> id])
    /\ SetTasks(MarkFailed(tasks, id))
    /\ resp' = [op |-> "mark_failed", id |-> id, ok |-> TRUE]
    /\ UNCHANGED <<now, taskMetrics, tickQueue, nextTick>>
    /\ UNCHANGED <<regVars, provVars>>
    /\ UNCHANGED restVars

\* a POST /api/v1/tasks/{id}/metrics between its Insert and its UpdateBytes
MetricsHandler(id, bytesTotal) ==
    [op |-> "record_metrics", id |-> id, bytes_total |-> bytesTotal]

\* POST /api/v1/tasks/{id}/metrics: the Insert of RecordMetrics
ReportMetrics(id, bytesTotal) ==
    /\ Len(taskMetrics) < MaxSamples
    /\ Enter(MetricsHandler(id, bytesTotal))
    /\ taskMetrics' = RecordMetrics(taskMetrics, id, bytesTotal)
    /\ resp' = NoResp
    /\ UNCHANGED <<now, tasks, everRunning, tickQueue, nextTick>>
    /\ UNCHANGED <<regVars, provVars>>
    /\ UNCHANGED restVars

\* POST /api/v1/tasks/{id}/metrics: the UpdateBytes of RecordMetrics
ReportMetricsUpdate(id, bytesTotal) ==
    /\ BagIn(MetricsHandler(id, bytesTotal), inflight)
    /\ Leave(MetricsHandler(id, bytesTotal))
    /\ SetTasks(UpdateBytes(tasks, id, bytesTotal))
    /\ resp' = [op |-> "record_metrics", id |-> id, bytes_total |-> bytesTotal, ok |-> TRUE]
    /\ UNCHANGED <<now, taskMetrics, tickQueue, nextTick>>
    /\ UNCHANGED <<regVars, provVars>>
    /\ UNCHANGED restVars

\* GET /api/v1/agents/{agent_id}/tasks/pull
Pull(agentID) ==
    /\ resp' = [op |-> "pull", agent_id |-> agentID, tasks |-> PullTasks(tasks, agentID)]
    /\ UNCHANGED <<now, taskVars, inflight>>
    /\ UNCHANGED <<regVars, provVars>>
    /\ UNCHANGED restVars

\* Scheduler.tick: List, now
TickList ==
    /\ tickQueue = <<>>
    /\ tickQueue' = tickList(tasks, now)
    /\ resp' = NoResp
    /\ UNCHANGED <<now, tasks, taskMetrics, everRunning, nextTick, inflight>>
    /\ UNCHANGED <<regVars, provVars>>
    /\ UNCHANGED restVars

\* Scheduler.tick: one iteration of its loop
TickVisit ==
    /\ tickQueue # <<>>
    /\ SetTasks(tickVisit(tasks, Head(tickQueue)))
    /\ tickQueue' = Tail(tickQueue)
    /\ resp' = NoResp
    /\ UNCHANGED <<now, taskMetrics, nextTick, inflight>>
    /\ UNCHANGED <<regVars, provVars>>
    /\ UNCHANGED restVars

Init ==
    /\ now = 0
    /\ tasks = <<>>
    /\ taskMetrics = <<>>
    /\ everRunning = {}
    /\ tickQueue = <<>>
    /\ nextTick = TickPeriod
    /\ inflight = EmptyBag
    /\ resp = NoResp
    /\ agents = <<>>
    /\ bandwidth = <<>>
    /\ nextToken = 1
    /\ jobs = <<>>
    /\ workers = EmptyBag
    /\ credentials = <<>>
    /\ nextCred = 1
    /\ nextJob = 1
    /\ retries = 0
    /\ masterUp = TRUE
    /\ nextPurge = PurgePeriodHours
    /\ upHours = 0
    /\ downDays = 0
    /\ agentPhase = "loop"
    /\ rootCancelled = FALSE
    /\ executors = {}
    /\ running = <<>>
    /\ meters = {}
    /\ nextExec = 1
    /\ exec = [pc |-> "idle"]
    /\ bucket = [made |-> FALSE]
    /\ burst = 0
    /\ waiters = EmptyBag

Next ==
    \/ Advance
    \/ \E req \in CreateTaskRequests : CreateTask(req)
    \/ \E id \in TaskIds : DispatchGet(id)
    \/ \E id \in TaskIds : DispatchUpdate(id)
    \/ \E id \in TaskIds : StopGet(id)
    \/ \E id \in TaskIds : StopUpdate(id)
    \/ \E id \in TaskIds : DoMarkRunning(id)
    \/ \E id \in TaskIds : DoMarkDone(id)
    \/ \E id \in TaskIds : DoMarkFailed(id)
    \/ \E id \in TaskIds : DoMarkFailedUpdate(id)
    \/ \E id \in TaskIds, b \in 0..MaxBytes : ReportMetrics(id, b)
    \/ \E id \in TaskIds, b \in 0..MaxBytes : ReportMetricsUpdate(id, b)
    \/ \E a \in AgentNames : Pull(a)
    \/ TickList
    \/ TickVisit

Spec == Init /\ [][Next]_vars

\* ------------------------------------------------- the scheduler's ticker
\* The clock counts seconds.  Scheduler.Run ticks every TickPeriod seconds;
\* a tick (List and its updates) takes less than a second.

\* the tasks created for the ticker: a duration alone (3 s, 5 s), a start_at
\* in the future, an end_at alone, a duration with an earlier end_at, a
\* byte target alone
SchedRequests ==
    { [type |-> "static", target_url |-> "u", agent_id |-> "a1", start_at |-> NoTime,
       end_at |-> NoTime, duration_sec |-> 3, total_bytes_target |-> 0],
      [type |-> "static", target_url |-> "u", agent_id |-> "a1", start_at |-> NoTime,
       end_at |-> NoTime, duration_sec |-> 5, total_bytes_target |-> 0],
      [type |-> "static", target_url |-> "u", agent_id |-> "a1", start_at |-> 7,
       end_at |-> NoTime, duration_sec |-> 3, total_bytes_target |-> 0],
      [type |-> "static", target_url |-> "u", agent_id |-> "a1", start_at |-> NoTime,
       end_at |-> 8, duration_sec |-> 0, total_bytes_target |-> 0],
      [type |-> "static", target_url |-> "u", agent_id |-> "a1", start_at |-> NoTime,
       end_at |-> 3, duration_sec |-> 5, total_bytes_target |-> 0],
      [type |-> "static", target_url |-> "u", agent_id |-> "a1", start_at |-> NoTime,
       end_at |-> NoTime, duration_sec |-> 0, total_bytes_target |-> 1] }

\* a second passes; the ticker fires when its time has come
SecondPasses ==
    /\ now < MaxSchedClock
    /\ now < nextTick
    /\ tickQueue = <<>>
    /\ now' = now + 1
    /\ resp' = NoResp
    /\ UNCHANGED <<taskVars, inflight, regVars, provVars, restVars>>

\* mutant: every other tick is lost
TickerFireSlow ==
    /\ now = nextTick
    /\ tickQueue = <<>>
    /\ tickQueue' = tickList(tasks, now)
    /\ nextTick' = nextTick + 2 * TickPeriod
    /\ resp' = NoResp
    /\ UNCHANGED <<now, tasks, taskMetrics, everRunning, inflight>>
    /\ UNCHANGED <<regVars, provVars, restVars>>

\* Scheduler.Run: <-ticker.C, and the List and now of tick
TickerFire ==
    /\ now = nextTick
    /\ tickQueue = <<>>
    /\ tickQueue' = tickList(tasks, now)
    /\ nextTick' = nextTick + TickPeriod
    /\ resp' = NoResp
    /\ UNCHANGED <<now, tasks, taskMetrics, everRunning, inflight>>
    /\ UNCHANGED <<regVars, provVars, restVars>>

\* TaskService.MarkRunning(id) for a task that is not running yet
MarkRunningOnce(id) ==
    /\ TaskFound(id)
    /\ tasks[id].status \in {TaskStatusPending, TaskStatusDispatched}
    /\ DoMarkRunning(id)

\* the byte counts that the agent of a started task reports
SchedBytes == 1..MaxBytes

\* The scheduler on its ticker, tasks created and started, bytes reported.
NextSched ==
    \/ SecondPasses
    \/ TickerFire
    \/ TickVisit
    \/ \E req \in SchedRequests : CreateTask(req)
    \/ \E id \in TaskIds : MarkRunningOnce(id)
    \/ \E id \in TaskIds, b \in SchedBytes : ReportMetrics(id, b)
    \/ \E id \in TaskIds, b \in SchedBytes : ReportMetricsUpdate(id, b)

SpecSched == Init /\ [][NextSched]_vars

\* the clock runs and the goroutine of Scheduler.Run is scheduled
SpecSchedLive ==
    /\ SpecSched
    /\ WF_vars(SecondPasses)
    /\ WF_vars(TickerFire)
    /\ WF_vars(TickVisit)

\* ========================================================= agent registry
AgentStatusOnline == "online"

AgentIds == 1..MaxAgents

\* the ids generateID can have handed out
IssuedIds == 1..MaxTokens
Tokens == 1..MaxTokens

\* The bodies of POST /api/v1/agents/register that the model sends.
RegisterRequests ==
    { [hostname |-> "h1", ip |-> "ip1", port |-> 1, version |-> "v1"],
      [hostname |-> "h1", ip |-> "ip1", port |-> 2, version |-> "v2"],
      [hostname |-> "h2", ip |-> "ip1", port |-> 1, version |-> "v1"] }

\* ------------------------------------------------------------ agentStore
\* The columns created_at and updated_at are left out, as for the tasks.

\* agentStore.Get: the row is found
AgentFound(as, id) == id \in DOMAIN as

\* agentStore.Upsert: INSERT ... ON CONFLICT(id) DO UPDATE SET every column
Upsert(as, id, row) ==
    IF id \in DOMAIN as THEN [as EXCEPT ![id] = row] ELSE as @@ (id :> row)

\* agentStore.List: every row, ORDER BY created_at DESC; the caller gets copies
AgentList(as) ==
    LET ids == OrderDesc(DOMAIN as)
    IN [k \in 1..Len(ids) |-> [id |-> ids[k], row |-> as[ids[k]]]]

\* agentStore.UpdateStatus: UPDATE agents SET status=?, last_heartbeat=? WHERE id=?
AgentUpdateStatus(as, id, status, heartbeat) ==
    IF id \in DOMAIN as
    THEN [as EXCEPT ![id] = [@ EXCEPT !.status = status, !.last_heartbeat = heartbeat]]
    ELSE as

\* agentStore.UpdateRate: UPDATE agents SET current_rate_mbps=? WHERE id=?
UpdateRate(as, id, rateMbps) ==
    IF id \in DOMAIN as
    THEN [as EXCEPT ![id] = [@ EXCEPT !.current_rate_mbps = rateMbps]]
    ELSE as

\* agentStore.Delete: DELETE FROM agents WHERE id=?
AgentDelete(as, id) == [i \in DOMAIN as \ {id} |-> as[i]]

\* bandwidthStore.Insert: INSERT INTO bandwidth_samples
BandwidthInsert(bw, agentID, rateMbps, recordedAt) ==
    Append(bw, [agent_id |-> agentID, rate_mbps |-> rateMbps, recorded_at |-> recordedAt])

\* ----------------------------------------------------------- AgentService
\* generateID: random bytes, an id that no agent has or had.  The ids and
\* the tokens are numbered from the same counter.
FreshAgentId == nextToken

\* AgentService.Register: the loop over the listed agents; the position of
\* the first one with the request's hostname and ip, 0 if there is none
RegisterMatch(l, req) ==
    LET hits == {k \in 1..Len(l) :
                     l[k].row.hostname = req.hostname /\ l[k].row.ip = req.ip}
    IN IF hits = {} THEN 0 ELSE CHOOSE k \in hits : \A j \in hits : k <= j

\* AgentService.Register: the listed agent a with the fields of a
\* re-registration (its token and last_heartbeat are set by RegisterRow)
ReRegistered(a, req) ==
    [a EXCEPT !.status = AgentStatusOnline, !.version = req.version]

\* AgentService.Register: the agent built when no listed agent matches
NewAgent(req) ==
    [hostname |-> req.hostname, ip |-> req.ip, port |-> req.port, token |-> 0,
     status |-> AgentStatusOnline, version |-> req.version,
     current_rate_mbps |-> 0, last_heartbeat |-> NoTime]

\* AgentService.Register: the row handed to Upsert
RegisterRow(a, token, n) == [a EXCEPT !.token = token, !.last_heartbeat = n]

\* mutant: any token of a known agent is accepted
ValidateTokenKnownAgent(as, id, token) == AgentFound(as, id)

\* AgentService.ValidateToken: nil is returned
ValidateToken(as, id, token) == AgentFound(as, id) /\ as[id].token = token

\* the handlers of kind op that are between two of their statements
InflightOf(op) ==
    LET rs == {r \in BagToSet(inflight) : r.op = op}
    IN BagCardinality([r \in rs |-> inflight[r]])

\* the registrations in flight that will insert a new agent
InflightNewAgents ==
    LET rs == {r \in BagToSet(inflight) : r.op = "register" /\ r.id = 0}
    IN BagCardinality([r \in rs |-> inflight[r]])

\* -------------------------------------------------------- registry actions
\* POST /api/v1/agents/register: List and the search for (hostname, ip)
RegisterList(req) ==
    /\ nextToken + InflightOf("register") <= MaxTokens
    /\ LET l == AgentList(agents)
           k == RegisterMatch(l, req)
       IN /\ k = 0 => Cardinality(DOMAIN agents) + InflightNewAgents < MaxAgents
          /\ Enter([op |-> "register",
                    id |-> IF k = 0 THEN 0 ELSE l[k].id,
                    a |-> IF k = 0 THEN NewAgent(req) ELSE ReRegistered(l[k].row, req)])
    /\ resp' = NoResp
    /\ UNCHANGED <<now, taskVars, regVars, provVars>>
    /\ UNCHANGED restVars

\* POST /api/v1/agents/register: generateID, generateToken and the Upsert
RegisterUpsert(r) ==
    /\ r.op = "register"
    /\ BagIn(r, inflight)
    /\ Leave(r)
    /\ LET id == IF r.id = 0 THEN FreshAgentId ELSE r.id
       IN /\ agents' = Upsert(agents, id, RegisterRow(r.a, nextToken, now))
          /\ resp' = [op |-> "register", id |-> id, token |-> nextToken, ok |-> TRUE]
    /\ nextToken' = nextToken + 1
    /\ UNCHANGED <<now, bandwidth, taskVars, provVars>>
    /\ UNCHANGED restVars

\* POST /api/v1/agents/heartbeat: ValidateToken
HeartbeatValidate(id, token, rateMbps) ==
    /\ IF ValidateToken(agents, id, token)
       THEN /\ Len(bandwidth) + InflightOf("heartbeat") < MaxBwSamples
            /\ Enter([op |-> "heartbeat", id |-> id, token |-> token,
                      rate_mbps |-> rateMbps, pc |-> "UpdateStatus", at |-> NoTime])
            /\ resp' = NoResp
       ELSE /\ resp' = [op |-> "heartbeat", id |-> id, token |-> token,
                        ok |-> FALSE, code |-> 401]
            /\ UNCHANGED inflight
    /\ UNCHANGED <<now, taskVars, regVars, provVars>>
    /\ UNCHANGED restVars

\* AgentService.Heartbeat: time.Now and UpdateStatus
HeartbeatStatus(r) ==
    /\ r.op = "heartbeat" /\ r.pc = "UpdateStatus"
    /\ BagIn(r, inflight)
    /\ inflight' = (inflight (-) SetToBag({r}))
                     (+) SetToBag({[r EXCEPT !.pc = "UpdateRate", !.at = now]})
    /\ agents' = AgentUpdateStatus(agents, r.id, AgentStatusOnline, now)
    /\ resp' = NoResp
    /\ UNCHANGED <<now, bandwidth, nextToken, taskVars, provVars>>
    /\ UNCHANGED restVars

\* AgentService.Heartbeat: UpdateRate
HeartbeatRate(r) ==
    /\ r.op = "heartbeat" /\ r.pc = "UpdateRate"
    /\ BagIn(r, inflight)
    /\ inflight' = (inflight (-) SetToBag({r})) (+) SetToBag({[r EXCEPT !.pc = "Insert"]})
    /\ agents' = UpdateRate(agents, r.id, r.rate_mbps)
    /\ resp' = NoResp
    /\ UNCHANGED <<now, bandwidth, nextToken, taskVars, provVars>>
    /\ UNCHANGED restVars

\* AgentService.Heartbeat: the bandwidth sample, and the handler's response
HeartbeatInsert(r) ==
    /\ r.op = "heartbeat" /\ r.pc = "Insert"
    /\ BagIn(r, inflight)
    /\ Leave(r)
    /\ bandwidth' = BandwidthInsert(bandwidth, r.id, r.rate_mbps, r.at)
    /\ resp' = [op |-> "heartbeat", id |-> r.id, token |-> r.token,
                ok |-> TRUE, code |-> 200]
    /\ UNCHANGED <<now, agents, nextToken, taskVars, provVars>>
    /\ UNCHANGED restVars

\* DELETE /api/v1/agents/{id}: deleteAgent calls AgentService.Delete, whose
\* body is not among the sources and is taken to hand the id to
\* agentStore.Delete; a DELETE that matches no row is no error
DeleteAgent(id) ==
    /\ agents' = AgentDelete(agents, id)
    /\ resp' = [op |-> "delete_agent", id |-> id, ok |-> TRUE]
    /\ UNCHANGED <<now, inflight, bandwidth, nextToken, taskVars, provVars>>
    /\ UNCHANGED restVars

NextAgent ==
    \/ Advance
    \/ \E id \in IssuedIds : DeleteAgent(id)
    \/ \E req \in RegisterRequests : RegisterList(req)
    \/ \E r \in BagToSet(inflight) : RegisterUpsert(r)
    \/ \E id \in IssuedIds, token \in Tokens, rate \in 0..MaxRate :
           HeartbeatValidate(id, token, rate)
    \/ \E r \in BagToSet(inflight) : HeartbeatStatus(r)
    \/ \E r \in BagToSet(inflight) : HeartbeatRate(r)
    \/ \E r \in BagToSet(inflight) : HeartbeatInsert(r)

SpecAgent == Init /\ [][NextAgent]_vars

\* ------------------------------------------------------ offline detection
AgentStatusOffline == "offline"

\* NewAgentService: the heartbeat timeout, in seconds
HeartbeatTimeout == 30

\* RunOfflineDetection: the period of its ticker, in seconds
SweepPeriod == 15

\* mutant: an agent without a heartbeat at this very instant is stale
staleAgentsNoTimeout(l, n) ==
    SelectSeq(l, LAMBDA a : a.row.status = AgentStatusOnline /\ a.row.last_heartbeat < n)

\* AgentService.detectOffline: the listed agents for which the condition of
\* the loop holds (online, LastHeartbeat.Before(threshold)), in list order
staleAgents(l, n) ==
    LET threshold == n - HeartbeatTimeout
    IN SelectSeq(l, LAMBDA a : /\ a.row.status = AgentStatusOnline
                               /\ a.row.last_heartbeat < threshold)

\* the offline sweep that is between two of its statements, if any
Sweeping == {r \in BagToSet(inflight) : r.op = "sweep"}

\* a quarter of a minute passes
QuarterMinute ==
    /\ now + SweepPeriod <= MaxSweepClock
    /\ now' = now + SweepPeriod
    /\ resp' = NoResp
    /\ UNCHANGED <<taskVars, inflight, regVars, provVars, restVars>>

\* AgentService.detectOffline: List, the threshold, and the copies of the
\* agents its loop will update
DetectList ==
    /\ Sweeping = {}
    /\ LET q == staleAgents(AgentList(agents), now)
       IN inflight' = IF q = <<>> THEN inflight
                      ELSE inflight (+) SetToBag({[op |-> "sweep", queue |-> q]})
    /\ resp' = [op |-> "detect_offline", at |-> now]
    /\ UNCHANGED <<now, taskVars, regVars, provVars, restVars>>

\* AgentService.detectOffline: the UpdateStatus of one iteration of its loop
DetectVisit(r) ==
    /\ r.op = "sweep"
    /\ BagIn(r, inflight)
    /\ LET a == Head(r.queue)
       IN agents' = AgentUpdateStatus(agents, a.id, AgentStatusOffline,
                                      a.row.last_heartbeat)
    /\ inflight' = (inflight (-) SetToBag({r}))
                     (+) (IF Len(r.queue) = 1 THEN EmptyBag
                          ELSE SetToBag({[r EXCEPT !.queue = Tail(@)]}))
    /\ resp' = NoResp
    /\ UNCHANGED <<now, bandwidth, nextToken, taskVars, provVars, restVars>>

\* the registrations during the sweeps: two hosts, one registration body each
SweepRequests == {req \in RegisterRequests : req.port = 1}

NextSweep ==
    \/ QuarterMinute
    \/ \E id \in IssuedIds : DeleteAgent(id)
    \/ \E req \in SweepRequests : RegisterList(req)
    \/ \E r \in BagToSet(inflight) : RegisterUpsert(r)
    \/ \E id \in IssuedIds, token \in Tokens, rate \in {MaxRate} :
           HeartbeatValidate(id, token, rate)
    \/ \E r \in BagToSet(inflight) : HeartbeatStatus(r)
    \/ \E r \in BagToSet(inflight) : HeartbeatRate(r)
    \/ \E r \in BagToSet(inflight) : HeartbeatInsert(r)
    \/ DetectList
    \/ \E r \in BagToSet(inflight) : DetectVisit(r)

SpecSweep == Init /\ [][NextSweep]_vars

\* =========================================================== provisioning
ProvisionStatusPending == "pending"
ProvisionStatusRunning == "running"
ProvisionStatusSuccess == "success"
ProvisionStatusFailed == "failed"
AuthTypeKey == "key"
AuthTypePassword == "password"

NoId == 0                  \* the empty string in a column that holds an id
DefaultSSHPort == 22

JobIds == 1..MaxJobs
CredIds == 1..MaxCreds

\* The bodies of POST /api/v1/agents/provision that the model sends; the one
\* for ip2 names a credential that is never created.
JobRequests ==
    { [host_ip |-> "ip1", ssh_port |-> 0, ssh_user |-> "root",
       auth_type |-> AuthTypePassword, credential_ref |-> 1],
      [host_ip |-> "ip2", ssh_port |-> 2222, ssh_user |-> "root",
       auth_type |-> AuthTypePassword, credential_ref |-> MaxCreds + 1],
      [host_ip |-> "", ssh_port |-> 22, ssh_user |-> "root",
       auth_type |-> AuthTypePassword, credential_ref |-> 1],
      [host_ip |-> "ip2", ssh_port |-> 22, ssh_user |-> "",
       auth_type |-> AuthTypePassword, credential_ref |-> 1],
      [host_ip |-> "ip2", ssh_port |-> 22, ssh_user |-> "root",
       auth_type |-> AuthTypePassword, credential_ref |-> NoId] }

\* The register request of the agent that a provisioned host starts.
HostRegisterRequests ==
    {q \in RegisterRequests : q.hostname = "h1" /\ q.version = "v1"}

\* The bodies of POST /api/v1/credentials that the model sends.
CredentialRequests ==
    { [name |-> "n", type |-> AuthTypePassword, payload |-> "secret"],
      [name |-> "n", type |-> AuthTypeKey, payload |-> "not a key"] }

\* ------------------------------------------- provisionJobStore, credentialStore
\* provisionJobStore.Create: INSERT INTO provision_jobs
JobCreate(js, id, row) == js @@ (id :> row)

\* provisionJobStore.Delete: DELETE FROM provision_jobs WHERE id=?
JobDelete(js, id) == [i \in DOMAIN js \ {id} |-> js[i]]

\* provisionJobStore.List: every row, ORDER BY created_at DESC
JobList(js) ==
    LET ids == OrderDesc(DOMAIN js)
    IN [k \in 1..Len(ids) |-> [id |-> ids[k], row |-> js[ids[k]]]]

\* provisionJobStore.UpdateStatus: UPDATE provision_jobs SET status=?,current_step=?
JobUpdateStatus(js, id, status, step) ==
    IF id \in DOMAIN js
    THEN [js EXCEPT ![id] = [@ EXCEPT !.status = status, !.current_step = step]]
    ELSE js

\* provisionJobStore.AppendLog: UPDATE provision_jobs SET log=log||?||char(10)
AppendLog(js, id, line) ==
    IF id \in DOMAIN js
    THEN [js EXCEPT ![id] = [@ EXCEPT !.log = Append(@, line)]]
    ELSE js

\* provisionJobStore.SetAgentID: UPDATE provision_jobs SET agent_id=?
SetAgentID(js, id, agentID) ==
    IF id \in DOMAIN js THEN [js EXCEPT ![id] = [@ EXCEPT !.agent_id = agentID]] ELSE js

\* mutant: SetFailed without the log line
SetFailedNoLog(js, id, step, reason) ==
    IF id \in DOMAIN js
    THEN [js EXCEPT ![id] = [@ EXCEPT !.status = ProvisionStatusFailed,
                                      !.failed_step = step]]
    ELSE js

\* provisionJobStore.SetFailed:
\* UPDATE provision_jobs SET status='failed',failed_step=?,log=log||'[FAIL] '||reason||char(10)
SetFailed(js, id, step, reason) ==
    IF id \in DOMAIN js
    THEN [js EXCEPT ![id] = [@ EXCEPT !.status = ProvisionStatusFailed,
                                      !.failed_step = step,
                                      !.log = Append(@, <<"[FAIL]", reason>>)]]
    ELSE js

\* credentialStore.Get: the row is found
CredentialFound(cs, id) == id \in DOMAIN cs

\* credentialStore.Create: INSERT INTO credentials
CredentialCreate(cs, id, row) == cs @@ (id :> row)

\* credentialStore.Delete: DELETE FROM credentials WHERE id=?
CredentialDelete(cs, id) == [i \in DOMAIN cs \ {id} |-> cs[i]]

\* ------------------------------------------------------ provision.Service
\* Service.Start: the required fields are present
StartValid(req) == ~(req.host_ip = "" \/ req.ssh_user = "" \/ req.credential_ref = NoId)

\* Service.Start: the default of ssh_port
StartPort(port) == IF port <= 0 THEN DefaultSSHPort ELSE port

\* Service.Start: a listed agent has the request's ip
AgentWithIP(l, ip) == \E k \in 1..Len(l) : l[k].row.ip = ip

\* mutant: only a pending job counts as in progress
JobPendingOnly(l, ip) ==
    \E k \in 1..Len(l) :
        l[k].row.host_ip = ip /\ l[k].row.status = ProvisionStatusPending

\* Service.Start: a listed job for the request's ip is pending or running
JobInProgress(l, ip) ==
    \E k \in 1..Len(l) :
        /\ l[k].row.host_ip = ip
        /\ (l[k].row.status = ProvisionStatusPending
               \/ l[k].row.status = ProvisionStatusRunning)

\* Service.Start: the job it creates
NewJob(req) ==
    [host_ip |-> req.host_ip, ssh_port |-> req.ssh_port, ssh_user |-> req.ssh_user,
     auth_type |-> req.auth_type, credential_ref |-> req.credential_ref,
     status |-> ProvisionStatusPending, current_step |-> "created",
     log |-> <<>>, agent_id |-> NoId, failed_step |-> ""]

\* newID: random bytes, an id that no job has or had
FreshJobId == nextJob

\* go s.run(job.ID, req): the goroutine at its first statement
NewWorker(jobID, req) ==
    [job |-> jobID, req |-> req, phase |-> "run", pc |-> 1,
     step |-> "", reason |-> "", agent |-> NoId]

\* ssh.ParsePrivateKey accepts the payload
ValidPrivateKey(payload) == payload = "pem"

\* buildSSHConfig returns an error
SSHConfigError(cred) ==
    IF cred.type = AuthTypeKey THEN ~ValidPrivateKey(cred.payload)
    ELSE IF cred.type = AuthTypePassword THEN FALSE
    ELSE TRUE

\* Service.run up to the health check, statement by statement: a write of
\* (status, current_step), a line of the log, the load of the credential, or
\* a remote operation (ssh.Dial, runSSH) that fails with the given reason.
\* A remote operation touches nothing of the store: it is taken in the step
\* of the statement before it.
runProgram ==
    << [kind |-> "status", step |-> "ssh_check"],
       [kind |-> "log", msg |-> "Loading credential..."],
       [kind |-> "credential", step |-> "ssh_check"],
       [kind |-> "log", msg |-> "Connecting"],
       [kind |-> "remote", step |-> "ssh_check", reason |-> "SSH connect failed"],
       [kind |-> "log", msg |-> "SSH connectivity OK"],
       [kind |-> "status", step |-> "download_binary"],
       [kind |-> "log", msg |-> "Detecting target architecture..."],
       [kind |-> "remote", step |-> "download_binary", reason |-> "detect arch"],
       [kind |-> "log", msg |-> "Downloading agent binary"],
       [kind |-> "remote", step |-> "download_binary", reason |-> "download failed"],
       [kind |-> "log", msg |-> "Agent binary downloaded"],
       [kind |-> "status", step |-> "install_service"],
       [kind |-> "log", msg |-> "Installing systemd service..."],
       [kind |-> "log", msg |-> "  $ sudo mv"],
       [kind |-> "remote", step |-> "install_service", reason |-> "cmd error"],
       [kind |-> "log", msg |-> "  $ sudo tee"],
       [kind |-> "remote", step |-> "install_service", reason |-> "cmd error"],
       [kind |-> "log", msg |-> "  $ sudo systemctl"],
       [kind |-> "remote", step |-> "install_service", reason |-> "cmd error"],
       [kind |-> "log", msg |-> "Service installed and started"],
       [kind |-> "status", step |-> "health_check"],
       [kind |-> "log", msg |-> "Waiting for agent to come online (max 60s)..."],
       [kind |-> "health", step |-> "health_check",
        reason |-> "agent did not come online within 60s"] >>

\* the statement a worker is at
Instr(w) == runProgram[w.pc]

\* Service.run, the health check: the position of the first listed agent
\* with the job's ip and status online, 0 if there is none
HealthMatch(l, ip) ==
    LET hits == {k \in 1..Len(l) :
                     l[k].row.ip = ip /\ l[k].row.status = AgentStatusOnline}
    IN IF hits = {} THEN 0 ELSE CHOOSE k \in hits : \A j \in hits : k <= j

\* Service.run: fail(step, reason) is called
Failing(w, step, reason) ==
    [w EXCEPT !.phase = "fail_log", !.step = step, !.reason = reason]

\* Service.run: the worker after the statement it is at, and after the remote
\* operation that follows it, if one does, with outcome ok
AfterStatement(w, ok) ==
    LET w1 == [w EXCEPT !.pc = @ + 1]
    IN IF Instr(w1).kind # "remote" THEN w1
       ELSE IF ok THEN [w1 EXCEPT !.pc = @ + 1]
       ELSE Failing(w1, Instr(w1).step, Instr(w1).reason)

\* ---------------------------------------------------- provisioning actions
\* the workers that run job id
WorkersOf(id) ==
    LET ws == {w \in BagToSet(workers) : w.job = id}
    IN BagCardinality([w \in ws |-> workers[w]])

\* the log of job id has room for a line: a log that two workers write at
\* once is followed up to MaxSharedLines lines
LogRoom(id) ==
    (id \in DOMAIN jobs /\ WorkersOf(id) > 1) => Len(jobs[id].log) < MaxSharedLines

\* a worker moves on / returns
WorkerStep(w, w2) == workers' = (workers (-) SetToBag({w})) (+) SetToBag({w2})

WorkerExit(w) == workers' = workers (-) SetToBag({w})

\* credentialStore.List: every row, ORDER BY created_at DESC
CredentialList(cs) ==
    LET ids == OrderDesc(DOMAIN cs)
    IN [k \in 1..Len(ids) |-> [id |-> ids[k], row |-> cs[ids[k]]]]

\* ProvisionHandler: cred.Payload = ""
Scrubbed(c) == [c EXCEPT !.payload = ""]

\* json.Encode of a model.Credential: Payload has the tag json:"-"
\* (created_at is left out of the model)
CredentialJSON(id, c) == [id |-> id, name |-> c.name, type |-> c.type]

\* mutant: the credential is written as it is stored
CredentialBodyRaw(id, c) ==
    [id |-> id, name |-> c.name, type |-> c.type, payload |-> c.payload]

\* ProvisionHandler.CreateCredential / ListCredentials: what respond writes
\* for one credential
CredentialBody(id, c) == CredentialJSON(id, Scrubbed(c))

\* POST /api/v1/credentials
CreateCredential(req) ==
    /\ nextCred <= MaxCreds
    /\ credentials' = CredentialCreate(credentials, nextCred,
                                       [name |-> req.name, type |-> req.type,
                                        payload |-> req.payload])
    /\ nextCred' = nextCred + 1
    /\ resp' = [op |-> "create_credential", id |-> nextCred,
                body |-> CredentialBody(nextCred,
                                        [name |-> req.name, type |-> req.type,
                                         payload |-> req.payload])]
    /\ UNCHANGED <<now, inflight, taskVars, regVars, jobs, workers, nextJob>>
    /\ UNCHANGED restVars

\* GET /api/v1/credentials
ListCredentials ==
    /\ resp' = [op |-> "list_credentials",
                body |-> LET l == CredentialList(credentials)
                         IN [k \in 1..Len(l) |-> CredentialBody(l[k].id, l[k].row)]]
    /\ UNCHANGED <<now, inflight, taskVars, regVars, provVars>>
    /\ UNCHANGED restVars

\* DELETE /api/v1/credentials/{id}
DeleteCredential(id) ==
    /\ credentials' = CredentialDelete(credentials, id)
    /\ resp' = [op |-> "delete_credential", id |-> id, ok |-> TRUE]
    /\ UNCHANGED <<now, inflight, taskVars, regVars, jobs, workers, nextCred, nextJob>>
    /\ UNCHANGED restVars

\* POST /api/v1/agents/provision: the required fields, the default port,
\* the List of the agents and the search for the ip
StartCheckAgents(req) ==
    /\ IF ~StartValid(req)
       THEN /\ resp' = [op |-> "provision", req |-> req, ok |-> FALSE, id |-> NoId,
                        err |-> "required"]
            /\ UNCHANGED inflight
       ELSE IF AgentWithIP(AgentList(agents), req.host_ip)
       THEN /\ resp' = [op |-> "provision", req |-> req, ok |-> FALSE, id |-> NoId,
                        err |-> "agent exists"]
            /\ UNCHANGED inflight
       ELSE /\ nextJob + InflightOf("provision") <= MaxJobs
            /\ Enter([op |-> "provision", pc |-> "jobs",
                      req |-> [req EXCEPT !.ssh_port = StartPort(req.ssh_port)]])
            /\ resp' = NoResp
    /\ UNCHANGED <<now, taskVars, regVars, provVars>>
    /\ UNCHANGED restVars

\* POST /api/v1/agents/provision: the List of the jobs and the search for a
\* job in progress
StartCheckJobs(r) ==
    /\ r.op = "provision" /\ r.pc = "jobs"
    /\ BagIn(r, inflight)
    /\ IF JobInProgress(JobList(jobs), r.req.host_ip)
       THEN /\ Leave(r)
            /\ resp' = [op |-> "provision", req |-> r.req, ok |-> FALSE, id |-> NoId,
                        err |-> "in progress"]
       ELSE /\ inflight' = (inflight (-) SetToBag({r}))
                             (+) SetToBag({[r EXCEPT !.pc = "create"]})
            /\ resp' = NoResp
    /\ UNCHANGED <<now, taskVars, regVars, provVars>>
    /\ UNCHANGED restVars

\* POST /api/v1/agents/provision: Create, and go s.run
StartCreate(r) ==
    /\ r.op = "provision" /\ r.pc = "create"
    /\ BagIn(r, inflight)
    /\ Leave(r)
    /\ jobs' = JobCreate(jobs, FreshJobId, NewJob(r.req))
    /\ workers' = workers (+) SetToBag({NewWorker(FreshJobId, r.req)})
    /\ nextJob' = nextJob + 1
    /\ resp' = [op |-> "provision", req |-> r.req, ok |-> TRUE, id |-> FreshJobId,
                err |-> ""]
    /\ UNCHANGED <<now, taskVars, regVars, credentials, nextCred>>
    /\ UNCHANGED restVars

\* Service.run: UpdateStatus(running, step)
WorkerStatus(w) ==
    /\ BagIn(w, workers)
    /\ w.phase = "run" /\ Instr(w).kind = "status"
    /\ jobs' = JobUpdateStatus(jobs, w.job, ProvisionStatusRunning, Instr(w).step)
    /\ WorkerStep(w, [w EXCEPT !.pc = @ + 1])
    /\ resp' = NoResp
    /\ UNCHANGED <<now, inflight, taskVars, regVars, credentials, nextCred, nextJob>>
    /\ UNCHANGED restVars

\* Service.run: logLine(msg), and the remote operation after it: the remote
\* host decides the outcome ok
WorkerLog(w, ok) ==
    /\ BagIn(w, workers)
    /\ w.phase = "run" /\ Instr(w).kind = "log"
    /\ LogRoom(w.job)
    /\ jobs' = AppendLog(jobs, w.job, <<Instr(w).msg>>)
    /\ WorkerStep(w, AfterStatement(w, ok))
    /\ resp' = NoResp
    /\ UNCHANGED <<now, inflight, taskVars, regVars, credentials, nextCred, nextJob>>
    /\ UNCHANGED restVars

\* Service.run: Credentials().Get and buildSSHConfig
WorkerCredential(w) ==
    /\ BagIn(w, workers)
    /\ w.phase = "run" /\ Instr(w).kind = "credential"
    /\ WorkerStep(w,
         IF ~CredentialFound(credentials, w.req.credential_ref)
         THEN Failing(w, Instr(w).step, "credential not found")
         ELSE IF SSHConfigError(credentials[w.req.credential_ref])
         THEN Failing(w, Instr(w).step, "SSH config error")
         ELSE [w EXCEPT !.pc = @ + 1])
    /\ resp' = NoResp
    /\ UNCHANGED <<now, inflight, taskVars, regVars, jobs, credentials, nextCred, nextJob>>
    /\ UNCHANGED restVars

\* Service.run, the health check: the deadline has not passed; List the
\* agents and look for an online agent with the job's ip; sleep if there is
\* none.  How long the statements and the sleeps take is up to the scheduler
\* and the store: the worker may find the deadline passed at any visit of the
\* loop condition (WorkerHealthTimeout).
WorkerHealthPoll(w) ==
    /\ BagIn(w, workers)
    /\ w.phase = "run" /\ Instr(w).kind = "health"
    /\ LET l == AgentList(agents)
           k == HealthMatch(l, w.req.host_ip)
       IN WorkerStep(w, IF k = 0 THEN w
                        ELSE [w EXCEPT !.phase = "online_log", !.agent = l[k].id])
    /\ resp' = NoResp
    /\ UNCHANGED <<now, inflight, taskVars, regVars, jobs, credentials, nextCred, nextJob>>
    /\ UNCHANGED restVars

\* Service.run, the health check: the deadline has passed
WorkerHealthTimeout(w) ==
    /\ BagIn(w, workers)
    /\ w.phase = "run" /\ Instr(w).kind = "health"
    /\ WorkerStep(w, Failing(w, Instr(w).step, Instr(w).reason))
    /\ resp' = NoResp
    /\ UNCHANGED <<now, inflight, taskVars, regVars, jobs, credentials, nextCred, nextJob>>
    /\ UNCHANGED restVars

\* Service.run, the health check: logLine("Agent <id> is online!")
WorkerOnlineLog(w) ==
    /\ BagIn(w, workers)
    /\ w.phase = "online_log"
    /\ LogRoom(w.job)
    /\ jobs' = AppendLog(jobs, w.job, <<"Agent", w.agent, "is online!">>)
    /\ WorkerStep(w, [w EXCEPT !.phase = "set_agent"])
    /\ resp' = NoResp
    /\ UNCHANGED <<now, inflight, taskVars, regVars, credentials, nextCred, nextJob>>
    /\ UNCHANGED restVars

\* Service.run, the health check: SetAgentID
WorkerSetAgentID(w) ==
    /\ BagIn(w, workers)
    /\ w.phase = "set_agent"
    /\ jobs' = SetAgentID(jobs, w.job, w.agent)
    /\ WorkerStep(w, [w EXCEPT !.phase = "success"])
    /\ resp' = NoResp
    /\ UNCHANGED <<now, inflight, taskVars, regVars, credentials, nextCred, nextJob>>
    /\ UNCHANGED restVars

\* Service.run, the health check: UpdateStatus(success, done) and return
WorkerSuccess(w) ==
    /\ BagIn(w, workers)
    /\ w.phase = "success"
    /\ jobs' = JobUpdateStatus(jobs, w.job, ProvisionStatusSuccess, "done")
    /\ WorkerExit(w)
    /\ resp' = NoResp
    /\ UNCHANGED <<now, inflight, taskVars, regVars, credentials, nextCred, nextJob>>
    /\ UNCHANGED restVars

\* Service.run, fail: logLine("FAILED at <step>: <reason>")
WorkerFailLog(w) ==
    /\ BagIn(w, workers)
    /\ w.phase = "fail_log"
    /\ LogRoom(w.job)
    /\ jobs' = AppendLog(jobs, w.job, <<"FAILED at", w.step, w.reason>>)
    /\ WorkerStep(w, [w EXCEPT !.phase = "fail_set"])
    /\ resp' = NoResp
    /\ UNCHANGED <<now, inflight, taskVars, regVars, credentials, nextCred, nextJob>>
    /\ UNCHANGED restVars

\* Service.run, fail: SetFailed(step, reason) and return
WorkerSetFailed(w) ==
    /\ BagIn(w, workers)
    /\ w.phase = "fail_set"
    /\ LogRoom(w.job)
    /\ jobs' = SetFailed(jobs, w.job, w.step, w.reason)
    /\ WorkerExit(w)
    /\ resp' = NoResp
    /\ UNCHANGED <<now, inflight, taskVars, regVars, credentials, nextCred, nextJob>>
    /\ UNCHANGED restVars

\* DELETE /api/v1/agents/provision-jobs/{job_id}: the handler calls
\* Service.DeleteJob, whose body is not among the sources and is taken to
\* hand the id to provisionJobStore.Delete; a DELETE that matches no row is
\* no error.  The worker of the job, if it has one, goes on.
DeleteJob(id) ==
    /\ jobs' = JobDelete(jobs, id)
    /\ resp' = [op |-> "delete_job", id |-> id, ok |-> TRUE]
    /\ UNCHANGED <<now, inflight, taskVars, regVars, workers, credentials, nextCred, nextJob>>
    /\ UNCHANGED restVars

\* the first registration of the host's agent: no register call came before
RegisterFirst(req) ==
    /\ nextToken = 1
    /\ InflightOf("register") = 0
    /\ RegisterList(req)

NextProv ==
    \/ \E req \in HostRegisterRequests : RegisterFirst(req)
    \/ \E id \in AgentIds : DeleteAgent(id)
    \/ \E id \in JobIds : DeleteJob(id)
    \/ \E r \in BagToSet(inflight) : RegisterUpsert(r)
    \/ \E req \in CredentialRequests : CreateCredential(req)
    \/ \E id \in CredIds : DeleteCredential(id)
    \/ ListCredentials
    \/ \E req \in JobRequests : StartCheckAgents(req)
    \/ \E r \in BagToSet(inflight) : StartCheckJobs(r)
    \/ \E r \in BagToSet(inflight) : StartCreate(r)
    \/ \E w \in BagToSet(workers) : WorkerStatus(w)
    \/ \E w \in BagToSet(workers), ok \in BOOLEAN : WorkerLog(w, ok)
    \/ \E w \in BagToSet(workers) : WorkerCredential(w)
    \/ \E w \in BagToSet(workers) : WorkerHealthPoll(w)
    \/ \E w \in BagToSet(workers) : WorkerHealthTimeout(w)
    \/ \E w \in BagToSet(workers) : WorkerOnlineLog(w)
    \/ \E w \in BagToSet(workers) : WorkerSetAgentID(w)
    \/ \E w \in BagToSet(workers) : WorkerSuccess(w)
    \/ \E w \in BagToSet(workers) : WorkerFailLog(w)
    \/ \E w \in BagToSet(workers) : WorkerSetFailed(w)

SpecProv == Init /\ [][NextProv]_vars

\* ================================================================== Retry
\* provisionJobStore.Get: the row is found
JobFound(js, id) == id \in DOMAIN js

\* provisionJobStore.ResetForRetry: UPDATE provision_jobs SET status=pending,
\* current_step='created',log='',agent_id='',failed_step='' WHERE id=?
ResetForRetry(js, id) ==
    IF id \in DOMAIN js
    THEN [js EXCEPT ![id] = [@ EXCEPT !.status = ProvisionStatusPending,
                                      !.current_step = "created",
                                      !.log = <<>>,
                                      !.agent_id = NoId,
                                      !.failed_step = ""]]
    ELSE js

\* mutant: a job that succeeded may be retried too
RetryAllowedFinished(status) ==
    status = ProvisionStatusFailed \/ status = ProvisionStatusSuccess

\* Service.Retry: the status check on the job it read
RetryAllowed(status) == status = ProvisionStatusFailed

\* Service.Retry: the request rebuilt from the job it read
RetryRequest(job) ==
    [host_ip |-> job.host_ip, ssh_port |-> job.ssh_port, ssh_user |-> job.ssh_user,
     auth_type |-> job.auth_type, credential_ref |-> job.credential_ref]

\* Service.Retry: the job it returns, the one it read with four fields reset
RetryReturned(job) ==
    [job EXCEPT !.status = ProvisionStatusPending, !.current_step = "created",
                !.log = <<>>, !.failed_step = ""]

\* POST /api/v1/agents/provision-jobs/{job_id}/retry: Get and the status check
RetryGet(id) ==
    /\ IF JobFound(jobs, id) /\ RetryAllowed(jobs[id].status)
       THEN /\ retries + InflightOf("retry") < MaxRetries
            /\ Enter([op |-> "retry", id |-> id, job |-> jobs[id]])
            /\ resp' = NoResp
       ELSE /\ resp' = [op |-> "retry", id |-> id, ok |-> FALSE]
            /\ UNCHANGED inflight
    /\ UNCHANGED <<now, taskVars, regVars, provVars, restVars>>

\* POST /api/v1/agents/provision-jobs/{job_id}/retry: ResetForRetry, go s.run
RetryReset(r) ==
    /\ r.op = "retry"
    /\ BagIn(r, inflight)
    /\ Leave(r)
    /\ jobs' = ResetForRetry(jobs, r.id)
    /\ workers' = workers (+) SetToBag({NewWorker(r.id, RetryRequest(r.job))})
    /\ retries' = retries + 1
    /\ resp' = [op |-> "retry", id |-> r.id, ok |-> TRUE, job |-> RetryReturned(r.job)]
    /\ UNCHANGED <<now, taskVars, regVars, credentials, nextCred, nextJob, purgeVars, procVars, exec, bucketVars>>

\* the first Start: no job was created and no other Start is in progress
StartFirst(req) ==
    /\ nextJob = 1
    /\ InflightOf("provision") = 0
    /\ StartCheckAgents(req)

\* One job, started once and retried: the engine with Retry.
NextRetry ==
    \/ \E req \in HostRegisterRequests : RegisterFirst(req)
    \/ \E id \in JobIds : DeleteJob(id)
    \/ \E r \in BagToSet(inflight) : RegisterUpsert(r)
    \/ \E req \in CredentialRequests : CreateCredential(req)
    \/ \E req \in JobRequests : StartFirst(req)
    \/ \E r \in BagToSet(inflight) : StartCheckJobs(r)
    \/ \E r \in BagToSet(inflight) : StartCreate(r)
    \/ \E id \in JobIds : RetryGet(id)
    \/ \E r \in BagToSet(inflight) : RetryReset(r)
    \/ \E w \in BagToSet(workers) : WorkerStatus(w)
    \/ \E w \in BagToSet(workers), ok \in BOOLEAN : WorkerLog(w, ok)
    \/ \E w \in BagToSet(workers) : WorkerCredential(w)
    \/ \E w \in BagToSet(workers) : WorkerHealthPoll(w)
    \/ \E w \in BagToSet(workers) : WorkerHealthTimeout(w)
    \/ \E w \in BagToSet(workers) : WorkerOnlineLog(w)
    \/ \E w \in BagToSet(workers) : WorkerSetAgentID(w)
    \/ \E w \in BagToSet(workers) : WorkerSuccess(w)
    \/ \E w \in BagToSet(workers) : WorkerFailLog(w)
    \/ \E w \in BagToSet(workers) : WorkerSetFailed(w)

SpecRetry == Init /\ [][NextRetry]_vars

\* ====================================================== bandwidth retention
\* mutant: the purge also deletes the samples recorded at the cutoff
PurgeOlderThanInclusive(bw, before) ==
    LET Keep(s) == ~(s.recorded_at <= before)
    IN SelectSeq(bw, Keep)

\* bandwidthStore.PurgeOlderThan:
\* DELETE FROM bandwidth_samples WHERE recorded_at < ?
PurgeOlderThan(bw, before) ==
    LET Keep(s) == ~(s.recorded_at < before)
    IN SelectSeq(bw, Keep)

\* Bandwidth().Insert called on the store, as TestBandwidthPurge does
StoreInsert(agentID, rateMbps, recordedAt) ==
    /\ Len(bandwidth) < MaxStoreSamples
    /\ bandwidth' = BandwidthInsert(bandwidth, agentID, rateMbps, recordedAt)
    /\ resp' = [op |-> "insert", at |-> recordedAt]
    /\ UNCHANGED <<now, inflight, agents, nextToken, taskVars, provVars, restVars>>

\* Bandwidth().PurgeOlderThan called on the store, as TestBandwidthPurge does
StorePurge(cutoff) ==
    /\ bandwidth' = PurgeOlderThan(bandwidth, cutoff)
    /\ resp' = [op |-> "purge", cutoff |-> cutoff]
    /\ UNCHANGED <<now, inflight, agents, nextToken, taskVars, provVars, restVars>>

\* The bandwidth store driven directly, with any recorded_at and any cutoff.
NextStore ==
    \/ \E id \in AgentIds, rate \in 0..MaxRate, at \in 0..MaxClock :
           StoreInsert(id, rate, at)
    \/ \E cutoff \in 0..(MaxClock + 1) : StorePurge(cutoff)

SpecStore == Init /\ [][NextStore]_vars

\* RunPurge: the cutoff of the purge that runs at time t
PurgeCutoff(t) == t - RetentionHours

\* an hour passes while the master runs; a tick that is due is served first
HourPasses ==
    /\ masterUp
    /\ upHours < MaxUpHours
    /\ now < nextPurge
    /\ now' = now + 1
    /\ upHours' = upHours + 1
    /\ resp' = NoResp
    /\ UNCHANGED <<inflight, taskVars, regVars, provVars, retries, procVars, exec, bucketVars,
                   masterUp, nextPurge, downDays>>

\* DashboardService.RunPurge: a tick of the hourly ticker
RunPurgeTick ==
    /\ masterUp
    /\ now = nextPurge
    /\ bandwidth' = PurgeOlderThan(bandwidth, PurgeCutoff(now))
    /\ nextPurge' = nextPurge + PurgePeriodHours
    /\ resp' = NoResp
    /\ UNCHANGED <<now, inflight, agents, nextToken, taskVars, provVars, retries, procVars, exec, bucketVars,
                   masterUp, upHours, downDays>>

\* master main: SIGINT or SIGTERM; the handlers and the provisioning workers
\* still running end with the process, the database file stays
MasterStop ==
    /\ masterUp
    /\ masterUp' = FALSE
    /\ inflight' = EmptyBag
    /\ workers' = EmptyBag
    /\ resp' = NoResp
    /\ UNCHANGED <<now, taskVars, regVars, jobs, credentials, nextCred, nextJob, retries, procVars,
                   exec, bucketVars, nextPurge, upHours, downDays>>

\* a day passes while the master is stopped
DayPassesDown ==
    /\ ~masterUp
    /\ downDays < MaxDownDays
    /\ now' = now + HoursPerDay
    /\ downDays' = downDays + 1
    /\ resp' = NoResp
    /\ UNCHANGED <<inflight, taskVars, regVars, provVars, retries, procVars, exec, bucketVars,
                   masterUp, nextPurge, upHours>>

\* master main: the process starts on the database it finds, go RunPurge
\* creates the ticker
MasterStart ==
    /\ ~masterUp
    /\ masterUp' = TRUE
    /\ nextPurge' = now + PurgePeriodHours
    /\ resp' = NoResp
    /\ UNCHANGED <<now, inflight, taskVars, regVars, provVars, retries, procVars, exec, bucketVars,
                   upHours, downDays>>

\* The master with its hourly purge, stopped and started again, and one
\* host sending heartbeats while it runs.
NextPurge ==
    \/ HourPasses
    \/ RunPurgeTick
    \/ MasterStop
    \/ DayPassesDown
    \/ MasterStart
    \/ \E req \in HostRegisterRequests : masterUp /\ RegisterList(req)
    \/ \E r \in BagToSet(inflight) : masterUp /\ RegisterUpsert(r)
    \/ \E id \in AgentIds, token \in Tokens, rate \in 0..MaxRate :
           masterUp /\ HeartbeatValidate(id, token, rate)
    \/ \E r \in BagToSet(inflight) : masterUp /\ HeartbeatStatus(r)
    \/ \E r \in BagToSet(inflight) : masterUp /\ HeartbeatRate(r)
    \/ \E r \in BagToSet(inflight) : masterUp /\ HeartbeatInsert(r)

SpecPurge == Init /\ [][NextPurge]_vars

\* The provisioning of one host by a master that keeps running: Start, the
\* worker, the host's agent registering.
NextProvUp ==
    \/ \E req \in HostRegisterRequests : masterUp /\ RegisterList(req)
    \/ \E r \in BagToSet(inflight) : masterUp /\ RegisterUpsert(r)
    \/ \E req \in CredentialRequests : masterUp /\ CreateCredential(req)
    \/ \E req \in JobRequests : masterUp /\ StartFirst(req)
    \/ \E r \in BagToSet(inflight) : masterUp /\ StartCheckJobs(r)
    \/ \E r \in BagToSet(inflight) : masterUp /\ StartCreate(r)
    \/ \E w \in BagToSet(workers) : WorkerStatus(w)
    \/ \E w \in BagToSet(workers), ok \in BOOLEAN : WorkerLog(w, ok)
    \/ \E w \in BagToSet(workers) : WorkerCredential(w)
    \/ \E w \in BagToSet(workers) : WorkerHealthPoll(w)
    \/ \E w \in BagToSet(workers) : WorkerHealthTimeout(w)
    \/ \E w \in BagToSet(workers) : WorkerOnlineLog(w)
    \/ \E w \in BagToSet(workers) : WorkerSetAgentID(w)
    \/ \E w \in BagToSet(workers) : WorkerSuccess(w)
    \/ \E w \in BagToSet(workers) : WorkerFailLog(w)
    \/ \E w \in BagToSet(workers) : WorkerSetFailed(w)

\* the same with the master stopped and started again
NextProvLive ==
    \/ NextProvUp
    \/ MasterStop
    \/ MasterStart

\* The goroutine of a worker is scheduled as long as the process runs, the
\* remote operations return, the deadline of the health check passes, and a
\* stopped master is started again.
WorkerFairness ==
    /\ WF_vars(\E w \in BagToSet(workers) : WorkerStatus(w))
    /\ WF_vars(\E w \in BagToSet(workers), ok \in BOOLEAN : WorkerLog(w, ok))
    /\ WF_vars(\E w \in BagToSet(workers) : WorkerCredential(w))
    /\ WF_vars(\E w \in BagToSet(workers) : WorkerHealthTimeout(w))
    /\ WF_vars(\E w \in BagToSet(workers) : WorkerOnlineLog(w))
    /\ WF_vars(\E w \in BagToSet(workers) : WorkerSetAgentID(w))
    /\ WF_vars(\E w \in BagToSet(workers) : WorkerSuccess(w))
    /\ WF_vars(\E w \in BagToSet(workers) : WorkerFailLog(w))
    /\ WF_vars(\E w \in BagToSet(workers) : WorkerSetFailed(w))
    /\ WF_vars(\E r \in BagToSet(inflight) : masterUp /\ StartCheckJobs(r))
    /\ WF_vars(\E r \in BagToSet(inflight) : masterUp /\ StartCreate(r))

SpecProvUp == Init /\ [][NextProvUp]_vars /\ WorkerFairness

SpecProvLive == Init /\ [][NextProvLive]_vars /\ WorkerFairness /\ WF_vars(MasterStart)

\* ======================================================== the agent process
AssignedIds == 1..MaxAssigned

\* taskRunner.pull, first loop: the tasks of the response that are not in
\* r.running, each started as a new execution
Started(assigned) == assigned \ DOMAIN running

\* the number given to the execution of task id started by this pull
ExecNo(assigned, id) ==
    nextExec + Cardinality({j \in Started(assigned) : j < id})

\* mutant: the second loop of pull is left out
DroppedNone(assigned) == {}

\* taskRunner.pull, second loop: the entries of r.running whose task is not
\* in the response; their cancel is called and they are deleted
Dropped(assigned) == DOMAIN running \ assigned

\* context.CancelFunc: the execution n is cancelled
CancelExec(es, ns) ==
    {IF e.n \in ns THEN [e EXCEPT !.cancelled = TRUE] ELSE e : e \in es}

\* taskRunner.pull between the answer to client.PullTasks and r.mu.Lock()
PullResponse(assigned) == [op |-> "agent_pull", tasks |-> assigned]

\* the pulls of the agent's main goroutine that have their answer
InPull == {r \in BagToSet(inflight) : r.op = "agent_pull"}

\* agent main, pullTicker: client.PullTasks(ctx) is answered with the tasks
\* assigned; a cancelled ctx fails the request before it is sent
AgentPull(assigned) ==
    /\ agentPhase = "loop"
    /\ ~rootCancelled
    /\ InPull = {}
    /\ inflight' = inflight (+) SetToBag({PullResponse(assigned)})
    /\ resp' = NoResp
    /\ UNCHANGED procVars
    /\ UNCHANGED <<now, taskVars, regVars, provVars, retries, purgeVars, exec, bucketVars>>

\* client.PullTasks(ctx): the root context is cancelled while the answer is
\* on its way, the request fails and pull returns
AgentPullFails(assigned) ==
    /\ BagIn(PullResponse(assigned), inflight)
    /\ rootCancelled
    /\ Leave(PullResponse(assigned))
    /\ resp' = NoResp
    /\ UNCHANGED procVars
    /\ UNCHANGED <<now, taskVars, regVars, provVars, retries, purgeVars, exec, bucketVars>>

\* taskRunner.pull, under r.mu: the two loops over the tasks of the answer;
\* a task context is a child of ctx and is done from the start when ctx is
AgentReconcile(assigned) ==
    /\ BagIn(PullResponse(assigned), inflight)
    /\ nextExec + Cardinality(Started(assigned)) <= MaxExecs + 1
    /\ Leave(PullResponse(assigned))
    /\ executors' =
           CancelExec(executors, {running[id] : id \in Dropped(assigned)})
             \cup {[task |-> id, n |-> ExecNo(assigned, id), cancelled |-> rootCancelled,
                    pc |-> "run"] : id \in Started(assigned)}
    /\ running' = [id \in (DOMAIN running \cup assigned) \ Dropped(assigned) |->
                      IF id \in DOMAIN running THEN running[id]
                      ELSE ExecNo(assigned, id)]
    /\ meters' = (meters \cup Started(assigned)) \ Dropped(assigned)
    /\ nextExec' = nextExec + Cardinality(Started(assigned))
    /\ resp' = [op |-> "agent_pull", tasks |-> assigned]
    /\ UNCHANGED <<agentPhase, rootCancelled>>
    /\ UNCHANGED <<now, taskVars, regVars, provVars, retries, purgeVars, exec, bucketVars>>

\* taskRunner.execute: Run returned an error, and the failure report, a
\* sample without bytes, is posted; RecordMetrics inserts it
ExecutorFails(e) ==
    /\ agentPhase = "loop"
    /\ e \in executors
    /\ e.pc = "run"
    /\ Len(taskMetrics) < MaxSamples
    /\ Enter(MetricsHandler(e.task, 0))
    /\ taskMetrics' = RecordMetrics(taskMetrics, e.task, 0)
    /\ executors' = (executors \ {e}) \cup {[e EXCEPT !.pc = "report"]}
    /\ resp' = NoResp
    /\ UNCHANGED <<agentPhase, rootCancelled, running, meters, nextExec>>
    /\ UNCHANGED <<now, tasks, everRunning, tickQueue, nextTick>>
    /\ UNCHANGED <<regVars, provVars, retries, purgeVars, exec, bucketVars>>

\* taskRunner.execute: the UpdateBytes of the failure report, and its answer
ExecutorReported(e) ==
    /\ agentPhase = "loop"
    /\ e \in executors
    /\ e.pc = "report"
    /\ BagIn(MetricsHandler(e.task, 0), inflight)
    /\ Leave(MetricsHandler(e.task, 0))
    /\ SetTasks(UpdateBytes(tasks, e.task, 0))
    /\ executors' = (executors \ {e}) \cup {[e EXCEPT !.pc = "done"]}
    /\ resp' = [op |-> "record_metrics", id |-> e.task, bytes_total |-> 0, ok |-> TRUE]
    /\ UNCHANGED <<agentPhase, rootCancelled, running, meters, nextExec>>
    /\ UNCHANGED <<now, taskMetrics, tickQueue, nextTick>>
    /\ UNCHANGED <<regVars, provVars, retries, purgeVars, exec, bucketVars>>

\* taskRunner.execute: Run returned nil (deadline or cancellation), or the
\* failure report is answered; the deferred function deletes the task's
\* entry of r.running
ExecutorReturn(e) ==
    /\ agentPhase = "loop"
    /\ e \in executors
    /\ e.pc \in {"run", "done"}
    /\ executors' = executors \ {e}
    /\ running' = [id \in DOMAIN running \ {e.task} |-> running[id]]
    /\ meters' = meters \ {e.task}
    /\ resp' = NoResp
    /\ UNCHANGED <<agentPhase, rootCancelled, nextExec>>
    /\ UNCHANGED <<now, inflight, taskVars, regVars, provVars, retries, purgeVars, exec, bucketVars>>

\* agent main, the signal goroutine: SIGINT or SIGTERM, cancel(); every task
\* context is a child of the root context
AgentSignal ==
    /\ agentPhase = "loop"
    /\ ~rootCancelled
    /\ rootCancelled' = TRUE
    /\ executors' = {[e EXCEPT !.cancelled = TRUE] : e \in executors}
    /\ resp' = NoResp
    /\ UNCHANGED <<agentPhase, running, meters, nextExec>>
    /\ UNCHANGED <<now, inflight, taskVars, regVars, provVars, retries, purgeVars, exec, bucketVars>>

\* agent main, case <-ctx.Done(): runner.stopAll() and return; the process
\* ends with the goroutines it still has.  The main goroutine is not in pull.
AgentExit ==
    /\ agentPhase = "loop"
    /\ rootCancelled
    /\ InPull = {}
    /\ executors' = CancelExec(executors, {running[id] : id \in DOMAIN running})
    /\ agentPhase' = "exited"
    /\ resp' = NoResp
    /\ UNCHANGED <<rootCancelled, running, meters, nextExec>>
    /\ UNCHANGED <<now, inflight, taskVars, regVars, provVars, retries, purgeVars, exec, bucketVars>>

\* The agent process: pulls, executors that fail or return, the signal, the
\* exit.
NextProc ==
    \/ \E assigned \in SUBSET AssignedIds : AgentPull(assigned)
    \/ \E assigned \in SUBSET AssignedIds : AgentPullFails(assigned)
    \/ \E assigned \in SUBSET AssignedIds : AgentReconcile(assigned)
    \/ \E e \in executors : ExecutorFails(e)
    \/ \E e \in executors : ExecutorReported(e)
    \/ \E e \in executors : ExecutorReturn(e)
    \/ AgentSignal
    \/ AgentExit

SpecProc == Init /\ [][NextProc]_vars

\* ------------------------------------------------ the agent and the Master
\* client.PullTasks of the agent process registered as agentID: the handler
\* of GET /api/v1/agents/{agent_id}/tasks/pull answers with the list of
\* TaskService.PullTasks; the agent applies it later, in AgentReconcile
MasterPull(agentID) ==
    LET l == PullTasks(tasks, agentID)
    IN AgentPull({l[k] : k \in DOMAIN l})

\* the tasks created for agent a1: one to start at once, one with a start_at
\* in the future
PullRequests == {req \in SchedRequests : req.duration_sec = 3}

\* The task service of the Master and the agent process of agent a1.
NextPull ==
    \/ Advance
    \/ \E req \in PullRequests : CreateTask(req)
    \/ \E id \in TaskIds : DispatchGet(id)
    \/ \E id \in TaskIds : DispatchUpdate(id)
    \/ \E id \in TaskIds : StopGet(id)
    \/ \E id \in TaskIds : StopUpdate(id)
    \/ \E id \in TaskIds : DoMarkRunning(id)
    \/ \E id \in TaskIds : DoMarkDone(id)
    \/ MasterPull("a1")
    \/ \E assigned \in SUBSET TaskIds : AgentReconcile(assigned)
    \/ \E e \in executors : ExecutorFails(e)
    \/ \E e \in executors : ExecutorReported(e)
    \/ \E e \in executors : ExecutorReturn(e)

SpecPull == Init /\ [][NextPull]_vars

\* ============================================================ the executors
TaskTypeYoutube == "youtube"
TaskTypeStatic == "static"

\* the tasks handed to Run: the fields the two executors branch on
ExecTasks ==
    [type : {TaskTypeYoutube, TaskTypeStatic},
     target_url : {"", "u"},
     jitter_pct : 0..1,
     total_bytes_target : 0..1,
     total_requests_target : 0..1,
     dispatch_rate_tpm : 0..1]

\* Run returns v
Returned(v) == [exec EXCEPT !.pc = "returned", !.result = v]

\* Run goes on at position pc
Goto(pc) == [exec EXCEPT !.pc = pc]

\* the call of Run is in progress
InRun == exec.pc \notin {"idle", "returned"}

\* select { case <-reqCtx.Done(): return nil; case <-time.After(d): }
\* when both are ready either case may be taken
SelectDone(next) ==
    \/ exec.ctx # "live" /\ exec' = Returned("nil")
    \/ exec' = Goto(next)

\* everything but exec stays
ExecFrame ==
    /\ resp' = NoResp
    /\ UNCHANGED <<now, inflight, taskVars, regVars, provVars, retries,
                   purgeVars, procVars, bucketVars>>

\* taskRunner.execute: reporter.NewTaskReporter, whose bytesTotal starts at 0,
\* and exe.Run(ctx, task, rep.Meter(), progressFn); Run gets the reporter's
\* meter and a progress function that does nothing, so that nothing calls
\* RecordBytes and bytesTotal stays as it is
ExecRun(task) ==
    /\ ~InRun
    /\ exec' = [pc |-> IF task.type = TaskTypeYoutube THEN "check"
                       ELSE IF task.jitter_pct > 0 THEN "jitter" ELSE "loop",
                task |-> task, ctx |-> "live", result |-> "none",
                totalBytes |-> 0, reqCount |-> 0, failures |-> 0,
                bytesTotal |-> 0]
    /\ ExecFrame

\* the deadline of the task passes, or the task context is cancelled
CtxDone(cause) ==
    /\ InRun
    /\ exec.ctx = "live"
    /\ exec' = [exec EXCEPT !.ctx = cause]
    /\ ExecFrame

\* StaticExecutor.Run: the jitter before the first request
StaticJitter ==
    /\ exec.pc = "jitter"
    /\ SelectDone("loop")
    /\ ExecFrame

\* StaticExecutor.Run: the head of the loop, context and volume targets
StaticLoop ==
    /\ exec.pc = "loop"
    /\ exec' =
         IF exec.ctx # "live" THEN Returned("nil")
         ELSE IF exec.task.total_bytes_target > 0
                 /\ exec.totalBytes >= exec.task.total_bytes_target
         THEN Returned("nil")
         ELSE IF exec.task.total_requests_target > 0
                 /\ exec.reqCount >= exec.task.total_requests_target
         THEN Returned("nil")
         ELSE Goto("download")
    /\ ExecFrame

\* StaticExecutor.Run: downloadOnce; ok is its outcome and n the bytes read.
\* A request for an empty url always fails.
StaticDownload(ok, n) ==
    /\ exec.pc = "download"
    /\ ok => exec.task.target_url # ""
    /\ IF ~ok
       THEN /\ exec.failures < MaxReq
            /\ exec' = IF exec.ctx # "live" THEN Returned("nil")
                       ELSE [exec EXCEPT !.pc = "retry_wait",
                                         !.failures = @ + 1]
       ELSE /\ exec.reqCount < MaxReq
            /\ exec.totalBytes + n <= MaxReq
            /\ exec' = [exec EXCEPT
                          !.pc = IF exec.task.dispatch_rate_tpm > 0
                                 THEN "interval" ELSE "loop",
                          !.totalBytes = @ + n,
                          !.reqCount = @ + 1]
    /\ ExecFrame

\* StaticExecutor.Run: the 2 s wait after a failed download
StaticRetryWait ==
    /\ exec.pc = "retry_wait"
    /\ SelectDone("loop")
    /\ ExecFrame

\* StaticExecutor.Run: the wait between two requests
StaticInterval ==
    /\ exec.pc = "interval"
    /\ SelectDone("loop")
    /\ ExecFrame

\* YoutubeExecutor.Run: the check of target_url
YoutubeCheck ==
    /\ exec.pc = "check"
    /\ exec' = IF exec.task.target_url = ""
               THEN Returned("target_url is required")
               ELSE Goto("start")
    /\ ExecFrame

\* YoutubeExecutor.Run: cmd.Start; ok is its outcome (Start fails at once
\* when the context is already done)
YoutubeStart(ok) ==
    /\ exec.pc = "start"
    /\ ok => exec.ctx = "live"
    /\ exec' = IF ok THEN Goto("wait") ELSE Returned("start yt-dlp")
    /\ ExecFrame

\* YoutubeExecutor.Run: cmd.Wait; the subprocess has exited with status 0
\* or not (exec.CommandContext kills it when the context is done)
YoutubeWait(zero) ==
    /\ exec.pc = "wait"
    /\ exec' = IF zero THEN Returned("nil")
               ELSE IF exec.ctx # "live" THEN Returned("nil")
               ELSE Returned("yt-dlp exited")
    /\ ExecFrame

\* Calls of the two executors, one after the other.
NextExec ==
    \/ \E task \in ExecTasks : ExecRun(task)
    \/ \E cause \in {"deadline", "cancel"} : CtxDone(cause)
    \/ StaticJitter
    \/ StaticLoop
    \/ \E ok \in BOOLEAN, n \in 0..1 : StaticDownload(ok, n)
    \/ StaticRetryWait
    \/ StaticInterval
    \/ YoutubeCheck
    \/ \E ok \in BOOLEAN : YoutubeStart(ok)
    \/ \E zero \in BOOLEAN : YoutubeWait(zero)

SpecExec == Init /\ [][NextExec]_vars

\* TaskReporter.report for the task the executor runs (the periodic report
\* or the final one): the reporter's bytesTotal is copied into a sample and
\* posted to /api/v1/tasks/{id}/metrics, where RecordMetrics inserts it; the
\* UpdateBytes of that request is the step ReportMetricsUpdate
ReporterReport(id) ==
    /\ exec.pc # "idle"
    /\ TaskFound(id)
    /\ ReportMetrics(id, exec.bytesTotal)

\* An executor, its reporter and the task service of the Master.
NextReport ==
    \/ NextExec
    \/ \E req \in CreateTaskRequests : CreateTask(req)
    \/ \E id \in TaskIds : ReporterReport(id)
    \/ \E id \in TaskIds, b \in 0..MaxBytes : ReportMetricsUpdate(id, b)

SpecReport == Init /\ [][NextReport]_vars

\* =========================================================== token bucket
\* rates are written in units of 0.065536 Mbps (8 KiB/s): 0, 4 and 16 units
RateUnits == {0, 4, 16}

\* the burst multipliers of New
Bursts == {1, 2}

\* the byte counts passed to Wait and TryConsume
Chunks == {ChunkBytes, 2 * ChunkBytes}

\* The float64 fields of the bucket are numbers >= 0, PosInf or NaN, and
\* the float64 operations of the code on them follow IEEE 754.
\* x + y
FAdd(x, y) ==
    IF x = NaN \/ y = NaN THEN NaN
    ELSE IF x = PosInf \/ y = PosInf THEN PosInf ELSE x + y

\* x - n, for a number n
FSub(x, n) == IF x = NaN THEN NaN ELSE IF x = PosInf THEN PosInf ELSE x - n

\* x * y: 0 * +Inf is NaN
FMul(x, y) ==
    IF x = NaN \/ y = NaN THEN NaN
    ELSE IF x = PosInf \/ y = PosInf
         THEN (IF x = 0 \/ y = 0 THEN NaN ELSE PosInf)
    ELSE x * y

\* x > y, x >= y and x < y: every comparison with NaN is false
FGt(x, y) == x # NaN /\ y # NaN /\ x > y

FGe(x, y) == x # NaN /\ y # NaN /\ x >= y

FLt(x, y) == x # NaN /\ y # NaN /\ x < y

\* rateMbps * 1e6 / 8
Bps(r) == r * BytesPerRateUnit

\* ratelimit.New: for rateMbps <= 0 the rate is math.MaxFloat64 / 1e6, and
\* rateMbps * 1e6 overflows to +Inf
New(r, burstMultiplier) ==
    LET bps == IF r <= 0 THEN PosInf ELSE Bps(r)
        capacity == IF FLt(FMul(bps, burstMultiplier), MinCapacity)
                    THEN MinCapacity ELSE FMul(bps, burstMultiplier)
    IN [made |-> TRUE, tokens |-> capacity, capacity |-> capacity, rate |-> bps]

\* TokenBucket.SetRate
SetRate(b, r) ==
    [b EXCEPT !.rate = Bps(r),
              !.capacity = FMul(Bps(r), SetRateBurst),
              !.tokens = IF FGt(@, FMul(Bps(r), SetRateBurst))
                         THEN FMul(Bps(r), SetRateBurst) ELSE @]

\* TokenBucket.fill, elapsed seconds after the fill before
fill(b, elapsed) ==
    LET tokens == FAdd(b.tokens, FMul(elapsed, b.rate))
    IN [b EXCEPT !.tokens = IF FGt(tokens, b.capacity) THEN b.capacity ELSE tokens]

\* Wait and TryConsume: the n bytes are there
Enough(b, n) == FGe(b.tokens, n)

\* Wait and TryConsume: tb.tokens -= float64(n)
Consume(b, n) == [b EXCEPT !.tokens = FSub(@, n)]

\* everything but the bucket stays
BucketFrame ==
    UNCHANGED <<now, inflight, taskVars, regVars, provVars, retries,
                purgeVars, procVars, exec>>

\* ratelimit.New(rateMbps, burstMultiplier)
BucketNew(r, burstMultiplier) ==
    /\ ~bucket.made
    /\ bucket' = New(r, burstMultiplier)
    /\ burst' = burstMultiplier
    /\ resp' = [op |-> "new", rate |-> r]
    /\ UNCHANGED waiters
    /\ BucketFrame

\* tb.SetRate(rateMbps), under the mutex
BucketSetRate(r) ==
    /\ bucket.made
    /\ bucket' = SetRate(bucket, r)
    /\ resp' = [op |-> "set_rate", rate |-> r]
    /\ UNCHANGED <<burst, waiters>>
    /\ BucketFrame

\* tb.TryConsume(n), under the mutex
BucketTryConsume(n, elapsed) ==
    /\ bucket.made
    /\ LET b == fill(bucket, elapsed)
       IN /\ bucket' = IF Enough(b, n) THEN Consume(b, n) ELSE b
          /\ resp' = [op |-> "try_consume", n |-> n, elapsed |-> elapsed,
                      ok |-> Enough(b, n)]
    /\ UNCHANGED <<burst, waiters>>
    /\ BucketFrame

\* one round of the loop of Wait for a call w, under the mutex: the bytes are
\* taken and Wait returns nil, or the call goes to sleep in the select; w.ctx
\* is the state of the caller's context, which the round does not look at
WaitRound(w, elapsed, asleep) ==
    LET b == fill(bucket, elapsed)
    IN /\ bucket' = IF Enough(b, w.n) THEN Consume(b, w.n) ELSE b
       /\ waiters' = IF Enough(b, w.n) THEN asleep
                     ELSE asleep (+) SetToBag({w})
       /\ resp' = IF Enough(b, w.n)
                  THEN [op |-> "wait", n |-> w.n, elapsed |-> elapsed,
                        ctx |-> w.ctx, ok |-> TRUE]
                  ELSE NoResp

\* tb.Wait(ctx, n): the first round
BucketWait(n, elapsed) ==
    /\ bucket.made
    /\ BagCardinality(waiters) < MaxWaiters
    /\ WaitRound([n |-> n, ctx |-> "live"], elapsed, waiters)
    /\ UNCHANGED burst
    /\ BucketFrame

\* the caller's context is cancelled while the call is asleep in the select
BucketCtxCancel(w) ==
    /\ BagIn(w, waiters)
    /\ w.ctx = "live"
    /\ waiters' = (waiters (-) SetToBag({w})) (+) SetToBag({[w EXCEPT !.ctx = "done"]})
    /\ resp' = NoResp
    /\ UNCHANGED <<bucket, burst>>
    /\ BucketFrame

\* tb.Wait(ctx, n): time.After(waitDur) fires, the next round; when the
\* context is done as well, the select takes either case
BucketWaitAgain(w, elapsed) ==
    /\ BagIn(w, waiters)
    /\ WaitRound(w, elapsed, waiters (-) SetToBag({w}))
    /\ UNCHANGED burst
    /\ BucketFrame

\* tb.Wait(ctx, n): the select takes ctx.Done(), Wait returns ctx.Err()
BucketWaitCancel(w) ==
    /\ BagIn(w, waiters)
    /\ w.ctx = "done"
    /\ waiters' = waiters (-) SetToBag({w})
    /\ resp' = [op |-> "wait", n |-> w.n, elapsed |-> 0, ctx |-> w.ctx, ok |-> FALSE]
    /\ UNCHANGED <<bucket, burst>>
    /\ BucketFrame

\* One token bucket and its concurrent callers.
NextBucket ==
    \/ \E r \in RateUnits, m \in Bursts : BucketNew(r, m)
    \/ \E r \in RateUnits : BucketSetRate(r)
    \/ \E n \in Chunks, e \in 0..MaxElapsed : BucketTryConsume(n, e)
    \/ \E n \in Chunks, e \in 0..MaxElapsed : BucketWait(n, e)
    \/ \E w \in BagToSet(waiters) : BucketCtxCancel(w)
    \/ \E w \in BagToSet(waiters), e \in 0..MaxElapsed : BucketWaitAgain(w, e)
    \/ \E w \in BagToSet(waiters) : BucketWaitCancel(w)

SpecBucket == Init /\ [][NextBucket]_vars

\* StaticExecutor.Run: the multiplier of its New
StaticBurst == 2

\* the target rates of the static tasks, in rate units, and the effective
\* rates of their SetRate calls, target rate times multiplier
StaticTargets == {4, 16}
StaticRates == {1, 4, 16}

\* downloadOnce: the byte counts of its Reads, half a buffer and a full one
ReadSizes == {ChunkBytes \div 2, ChunkBytes}

\* StaticExecutor.Run: tb.SetRate(effectiveRate) before a download; the one
\* goroutine that uses the bucket is not inside a Wait then
StaticSetRate(r) ==
    /\ waiters = EmptyBag
    /\ BucketSetRate(r)

\* downloadOnce: tb.Wait(ctx, int64(n)) after a Read
StaticWait(n, elapsed) ==
    /\ waiters = EmptyBag
    /\ BucketWait(n, elapsed)

\* The bucket of one static executor: New, then SetRate and the Waits of a
\* download in turn, under a context that is never cancelled.
NextWait ==
    \/ \E r \in StaticTargets : BucketNew(r, StaticBurst)
    \/ \E r \in StaticRates : StaticSetRate(r)
    \/ \E n \in ReadSizes, e \in 0..MaxElapsed : StaticWait(n, e)
    \/ \E w \in BagToSet(waiters), e \in 0..MaxElapsed : BucketWaitAgain(w, e)

\* the timer of a sleeping Wait fires, after a time that is not zero
SpecWait ==
    /\ Init
    /\ [][NextWait]_vars
    /\ WF_vars(\E w \in BagToSet(waiters), e \in 1..MaxElapsed : BucketWaitAgain(w, e))

\* ============================================================ the rate curve
\* Times are in seconds.  A multiplier is a fraction [num, den] with
\* den >= 0, as the float64 division of the code gives it: den = 0 is
\* +Inf, -Inf or NaN by the sign of num.
Frac(num, den) == [num |-> num, den |-> den]

\* the flat and ramp tasks RateForTask is called with: duration, ramps, and
\* end_at either absent or 40 s after started_at
ShapeTasks ==
    [distribution : {"flat", "ramp"},
     duration_sec : {0, 60},
     ramp_up_sec : {0, 10},
     ramp_down_sec : {0, 10},
     started_at : {0},
     end_at : {NoTime, 40}]

\* a diurnal task; the curve of its profile does not read its other fields
DiurnalTask ==
    [distribution |-> "diurnal", duration_sec |-> 60, ramp_up_sec |-> 0,
     ramp_down_sec |-> 0, started_at |-> 0, end_at |-> NoTime]

\* elapsed times; the executor passes time.Since(*task.StartedAt), its own
\* clock against a timestamp of the Master, which can be negative
Elapsed == {-5, 0, 5, 10, 15, 30, 35, 55, 60, 65}

\* {offset_sec, rate_pct}; the profile handler stores the points as given
ProfilePoints ==
    {[offset_sec |-> 0, rate_pct |-> 20], [offset_sec |-> 30, rate_pct |-> 100],
     [offset_sec |-> 60, rate_pct |-> 50], [offset_sec |-> 30, rate_pct |-> 150]}

\* the sequences of at most MaxPoints points
PointLists == UNION {[1..k -> ProfilePoints] : k \in 0..MaxPoints}

\* mutant: the ramp-down is left out
flatMultiplierNoRampDown(t, elapsed) ==
    IF elapsed < t.ramp_up_sec THEN Frac(elapsed, t.ramp_up_sec) ELSE Frac(1, 1)

\* scheduler.flatMultiplier
flatMultiplier(t, elapsed) ==
    LET rampUp == t.ramp_up_sec
        rampDown == t.ramp_down_sec
        totalDur == IF t.end_at # NoTime /\ t.started_at # NoTime
                    THEN t.end_at - t.started_at ELSE t.duration_sec
        remaining == totalDur - elapsed
    IN IF elapsed < rampUp THEN Frac(elapsed, rampUp)
       ELSE IF rampDown > 0 /\ totalDur > 0 /\ elapsed > totalDur - rampDown
            THEN IF remaining <= 0 THEN Frac(0, 1) ELSE Frac(remaining, rampDown)
            ELSE Frac(1, 1)

\* scheduler.diurnalMultiplier: the first pair of neighbours around sec, or
\* the last point
diurnalMultiplier(points, sec) ==
    LET around == {i \in 1..(Len(points) - 1) :
                      sec >= points[i].offset_sec /\ sec <= points[i + 1].offset_sec}
    IN IF Len(points) = 0 THEN Frac(1, 1)
       ELSE IF around = {} THEN Frac(points[Len(points)].rate_pct, 100)
       ELSE LET i == CHOOSE j \in around : \A k \in around : j <= k
                p0 == points[i]
                p1 == points[i + 1]
                span == p1.offset_sec - p0.offset_sec
            IN \* p0.RatePct/100 + frac*(p1.RatePct-p0.RatePct)/100,
               \* frac = (sec - p0.OffsetSec) / span; 0/0 when span = 0
               IF span = 0 THEN Frac(0, 0)
               ELSE Frac(p0.rate_pct * span
                           + (sec - p0.offset_sec) * (p1.rate_pct - p0.rate_pct),
                         100 * span)

\* scheduler.RateForTask
RateForTask(t, elapsed, points) ==
    CASE t.distribution = "ramp" -> flatMultiplier(t, elapsed)
      [] t.distribution = "diurnal" -> diurnalMultiplier(points, elapsed)
      [] OTHER -> flatMultiplier(t, elapsed)

\* a call of scheduler.RateForTask(task, elapsed, points)
RateForTaskCall(t, elapsed, points) ==
    /\ resp' = [op |-> "rate_for_task", task |-> t, elapsed |-> elapsed,
                points |-> points, mult |-> RateForTask(t, elapsed, points)]
    /\ UNCHANGED <<now, inflight, taskVars, regVars, provVars, restVars>>

\* The rate curve on every input of the bounded sets: flat and ramp tasks
\* with no points (the executor passes nil), a diurnal task with points.
NextShape ==
    \/ \E t \in ShapeTasks, e \in Elapsed : RateForTaskCall(t, e, <<>>)
    \/ \E e \in Elapsed, ps \in PointLists : RateForTaskCall(DiurnalTask, e, ps)

SpecShape == Init /\ [][NextShape]_vars

\* ------------------------------------------------------- task properties
IsTerminal(status) == status \in TerminalStatuses

\* the rows of the tasks table other than id are the same in ts1 and ts2
SameButTask(ts1, ts2, id) ==
    /\ DOMAIN ts1 = DOMAIN ts2
    /\ \A i \in DOMAIN ts1 : i # id => ts1[i] = ts2[i]

\* row r2 is row r1 with status st and column field set to t
RowWith(r1, r2, st, field, t) == r2 = [[r1 EXCEPT !.status = st] EXCEPT ![field] = t]

\* a handler for request r passes its check in this step
Admitted(r) == CopiesIn(r, inflight') > CopiesIn(r, inflight)

\* C1: no operation of the task service takes a task out of a terminal
\* status (done, failed, stopped) into pending, dispatched or running.
C1_TerminalAbsorbing ==
    [][resp'.op # "none" =>
         \A id \in DOMAIN tasks :
             IsTerminal(tasks[id].status) => IsTerminal(tasks'[id].status)]_vars

\* C2: finished_at is set exactly when the status is terminal.
C2_FinishedIffTerminal ==
    \A id \in DOMAIN tasks :
        (tasks[id].finished_at # NoTime) <=> IsTerminal(tasks[id].status)

\* C3: started_at is set exactly when the task has at some point been running.
C3_StartedIffEverRunning ==
    \A id \in DOMAIN tasks : (tasks[id].started_at # NoTime) <=> (id \in everRunning)

\* C3 witness: a task that ran, was stopped, and kept its started_at.
C3_Witness ==
    \E id \in DOMAIN tasks :
        /\ id \in everRunning
        /\ tasks[id].status = TaskStatusStopped
        /\ tasks[id].started_at # NoTime

\* C4: total_bytes_done of a task never decreases.
C4_BytesMonotone ==
    [][\A id \in DOMAIN tasks :
           tasks'[id].total_bytes_done >= tasks[id].total_bytes_done]_vars

\* C5: a dispatch passes its check only on a pending task, and then its
\* update sets status=dispatched and dispatched_at=now and nothing else; a
\* dispatch that fails found the task missing or not pending and writes
\* nothing.
C5_Dispatch ==
    [][\A id \in TaskIds :
          /\ Admitted([op |-> "dispatch", id |-> id]) =>
                 TaskFound(id) /\ tasks[id].status = TaskStatusPending
          /\ resp' = [op |-> "dispatch", id |-> id, ok |-> TRUE] =>
                 /\ TaskFound(id)
                 /\ RowWith(tasks[id], tasks'[id], TaskStatusDispatched, "dispatched_at", now)
                 /\ SameButTask(tasks, tasks', id)
          /\ resp' = [op |-> "dispatch", id |-> id, ok |-> FALSE] =>
                 /\ tasks' = tasks
                 /\ ~(TaskFound(id) /\ tasks[id].status = TaskStatusPending)]_vars

\* C5 witness: a task that was dispatched earlier, and a dispatch of it refused.
C5_Witness ==
    /\ resp.op = "dispatch" /\ ~resp.ok
    /\ TaskFound(resp.id)
    /\ tasks[resp.id].dispatched_at # NoTime
    /\ tasks[resp.id].status = TaskStatusRunning

\* C6: a stop passes its check only on a pending, dispatched or running
\* task, and then its update sets status=stopped and finished_at=now and
\* nothing else; a stop that fails found the task missing or terminal and
\* writes nothing.
C6_Stop ==
    [][\A id \in TaskIds :
          /\ Admitted([op |-> "stop", id |-> id]) =>
                 TaskFound(id) /\ ~IsTerminal(tasks[id].status)
          /\ resp' = [op |-> "stop", id |-> id, ok |-> TRUE] =>
                 /\ TaskFound(id)
                 /\ RowWith(tasks[id], tasks'[id], TaskStatusStopped, "finished_at", now)
                 /\ SameButTask(tasks, tasks', id)
          /\ resp' = [op |-> "stop", id |-> id, ok |-> FALSE] =>
                 /\ tasks' = tasks
                 /\ ~(TaskFound(id) /\ ~IsTerminal(tasks[id].status))]_vars

\* C6 witness: a stop refused on a task that an earlier stop had stopped.
C6_Witness ==
    /\ resp.op = "stop" /\ ~resp.ok
    /\ TaskFound(resp.id)
    /\ tasks[resp.id].status = TaskStatusStopped
    /\ tasks[resp.id].finished_at # NoTime

\* C7: a pull returns, once each, exactly the tasks of the calling agent
\* whose status is dispatched or running.
C7_PullExact ==
    resp.op = "pull" =>
        /\ {resp.tasks[k] : k \in 1..Len(resp.tasks)} =
               {id \in DOMAIN tasks :
                    /\ tasks[id].agent_id = resp.agent_id
                    /\ tasks[id].status \in {TaskStatusDispatched, TaskStatusRunning}}
        /\ \A j, k \in 1..Len(resp.tasks) : resp.tasks[j] = resp.tasks[k] => j = k

\* C7 witness: a pull that returned a task while the other agent's pull would not.
C7_Witness ==
    /\ resp.op = "pull"
    /\ Len(resp.tasks) > 0
    /\ \E a \in AgentNames : a # resp.agent_id /\ PullTasks(tasks, a) = <<>>

\* --------------------------------------------------- registry properties
\* C8: at most one agent record exists per (hostname, ip), whatever the
\* register calls and their interleaving.
C8_OneAgentPerHost ==
    \A i, j \in DOMAIN agents :
        (agents[i].hostname = agents[j].hostname /\ agents[i].ip = agents[j].ip) => i = j

\* a heartbeat for request r passes ValidateToken in this step
HeartbeatAdmitted(r) ==
    /\ r.op = "heartbeat" /\ r.pc = "UpdateStatus"
    /\ CopiesIn(r, inflight') > CopiesIn(r, inflight)

\* C9: a heartbeat passes validation only with the token the agent holds at
\* that moment, which is the one its most recent register returned; a
\* heartbeat with another token or an unknown agent_id is answered 401 and
\* leaves the agents table (status, last_heartbeat, current_rate_mbps) and
\* the bandwidth samples as they were.
C9_HeartbeatToken ==
    [][/\ \A r \in BagToSet(inflight') :
              HeartbeatAdmitted(r) =>
                  r.id \in DOMAIN agents /\ agents[r.id].token = r.token
       /\ (resp'.op = "heartbeat" /\ ~resp'.ok) =>
              /\ resp'.code = 401
              /\ ~(resp'.id \in DOMAIN agents /\ agents[resp'.id].token = resp'.token)
              /\ agents' = agents
              /\ bandwidth' = bandwidth
       /\ (resp'.op = "heartbeat" /\ resp'.ok) => Len(bandwidth') = Len(bandwidth) + 1
       /\ resp'.op = "register" =>
              /\ agents'[resp'.id].token = resp'.token
              /\ \A i \in DOMAIN agents : agents[i].token # resp'.token
       /\ \A i \in DOMAIN agents \cap DOMAIN agents' :
              agents'[i].token # agents[i].token => (resp'.op = "register" /\ resp'.id = i)
      ]_vars

\* C9 witness: the only agent has registered again, and a heartbeat that
\* carried a token it held before is refused.
C9_Witness ==
    /\ resp.op = "heartbeat" /\ ~resp.ok
    /\ DOMAIN agents = {resp.id}
    /\ resp.token < agents[resp.id].token

\* ----------------------------------------------- provisioning properties
\* a Start for request r passes its check of the agents in this step
StartAdmitted(r) ==
    /\ r.op = "provision" /\ r.pc = "jobs"
    /\ CopiesIn(r, inflight') > CopiesIn(r, inflight)

\* a Start for request r passes its check of the jobs in this step
StartPassed(r) ==
    /\ r.op = "provision" /\ r.pc = "create"
    /\ CopiesIn(r, inflight') > CopiesIn(r, inflight)

\* C10: a Start passes its first check only with host_ip, ssh_user and
\* credential_ref present and no agent holding host_ip, and its second check
\* only with no pending or running job for host_ip; a Start that returns an
\* error found one of these, persists no job and launches no worker; a Start
\* that succeeds persists exactly one new job, pending at step created, and
\* launches exactly one worker, for that job.
C10_Start ==
    [][/\ \A r \in BagToSet(inflight') :
              StartAdmitted(r) =>
                  /\ r.req.host_ip # "" /\ r.req.ssh_user # ""
                  /\ r.req.credential_ref # NoId
                  /\ \A a \in DOMAIN agents : agents[a].ip # r.req.host_ip
                  /\ jobs' = jobs /\ workers' = workers
       /\ \A r \in BagToSet(inflight') :
              StartPassed(r) =>
                  /\ \A j \in DOMAIN jobs :
                         jobs[j].host_ip = r.req.host_ip =>
                             jobs[j].status \notin {ProvisionStatusPending,
                                                    ProvisionStatusRunning}
                  /\ jobs' = jobs /\ workers' = workers
       /\ (resp'.op = "provision" /\ ~resp'.ok) =>
              /\ jobs' = jobs /\ workers' = workers
              /\ \/ resp'.req.host_ip = "" \/ resp'.req.ssh_user = ""
                 \/ resp'.req.credential_ref = NoId
                 \/ \E a \in DOMAIN agents : agents[a].ip = resp'.req.host_ip
                 \/ \E j \in DOMAIN jobs :
                        /\ jobs[j].host_ip = resp'.req.host_ip
                        /\ jobs[j].status \in {ProvisionStatusPending,
                                               ProvisionStatusRunning}
       /\ (resp'.op = "provision" /\ resp'.ok) =>
              /\ resp'.id \notin DOMAIN jobs
              /\ DOMAIN jobs' = DOMAIN jobs \cup {resp'.id}
              /\ \A j \in DOMAIN jobs : jobs'[j] = jobs[j]
              /\ jobs'[resp'.id].status = ProvisionStatusPending
              /\ jobs'[resp'.id].current_step = "created"
              /\ jobs'[resp'.id].host_ip = resp'.req.host_ip
              /\ BagCardinality(workers') = BagCardinality(workers) + 1
              /\ \E w \in BagToSet(workers') :
                     /\ w.job = resp'.id /\ w.phase = "run" /\ w.pc = 1
                     /\ CopiesIn(w, workers') = CopiesIn(w, workers) + 1
      ]_vars

\* C10 witness: a Start refused because a job for its host_ip is running,
\* while no agent holds that ip.
C10_Witness ==
    /\ resp.op = "provision" /\ ~resp.ok
    /\ \A a \in DOMAIN agents : agents[a].ip # resp.req.host_ip
    /\ \E j \in DOMAIN jobs :
           /\ jobs[j].host_ip = resp.req.host_ip
           /\ jobs[j].status = ProvisionStatusRunning

\* ------------------------------------------------------- retry properties
\* a Retry for request r passes its status check in this step
RetryAdmitted(r) ==
    /\ r.op = "retry"
    /\ CopiesIn(r, inflight') > CopiesIn(r, inflight)

\* C11: a Retry passes its check only on a job it read as failed; a Retry
\* that returns an error read a missing job or one that is not failed, leaves
\* every job as it was and starts no worker; a Retry that goes through
\* leaves the job pending at step created with log, agent_id and failed_step
\* empty, leaves the other jobs alone and starts exactly one worker, at the
\* first statement of run, for that job and the request the job was made from.
\* The reset is judged on the row as long as the job has a row: of a job
\* deleted since the Retry read it, ResetForRetry updates nothing.
C11_Retry ==
    [][/\ \A r \in BagToSet(inflight') :
              RetryAdmitted(r) =>
                  /\ r.id \in DOMAIN jobs
                  /\ jobs[r.id].status = ProvisionStatusFailed
                  /\ r.job = jobs[r.id]
                  /\ jobs' = jobs /\ workers' = workers
       /\ (resp'.op = "retry" /\ ~resp'.ok) =>
              /\ resp'.id \notin DOMAIN jobs
                    \/ jobs[resp'.id].status # ProvisionStatusFailed
              /\ jobs' = jobs /\ workers' = workers
       /\ (resp'.op = "retry" /\ resp'.ok) =>
              /\ DOMAIN jobs' = DOMAIN jobs
              /\ \A j \in DOMAIN jobs : j # resp'.id => jobs'[j] = jobs[j]
              /\ resp'.id \in DOMAIN jobs =>
                     jobs'[resp'.id] =
                         [jobs[resp'.id] EXCEPT !.status = ProvisionStatusPending,
                                                !.current_step = "created",
                                                !.log = <<>>,
                                                !.agent_id = NoId,
                                                !.failed_step = ""]
              /\ BagCardinality(workers') = BagCardinality(workers) + 1
              /\ \E w \in BagToSet(workers') :
                     /\ w.job = resp'.id /\ w.phase = "run" /\ w.pc = 1
                     /\ w.req.host_ip = resp'.job.host_ip
                     /\ w.req.credential_ref = resp'.job.credential_ref
                     /\ CopiesIn(w, workers') = CopiesIn(w, workers) + 1
      ]_vars

\* C11 witness: a Retry has just reset a job that had failed, and its worker
\* has not taken a step yet.
C11_Witness ==
    /\ resp.op = "retry" /\ resp.ok
    /\ resp.id \in DOMAIN jobs
    /\ jobs[resp.id].status = ProvisionStatusPending
    /\ jobs[resp.id].current_step = "created"
    /\ jobs[resp.id].log = <<>>
    /\ \E w \in BagToSet(workers) : w.job = resp.id /\ w.pc = 1 /\ w.phase = "run"

\* C12: in every reachable state a provisioning job with status success has
\* a non-empty agent_id.
C12_SuccessHasAgent ==
    \A j \in DOMAIN jobs :
        jobs[j].status = ProvisionStatusSuccess => jobs[j].agent_id # NoId

\* C13: in every reachable state a provisioning job with status failed has a
\* non-empty failed_step, and its log contains the line of SetFailed with a
\* non-empty failure reason.
C13_FailedHasStep ==
    \A j \in DOMAIN jobs :
        jobs[j].status = ProvisionStatusFailed =>
            /\ jobs[j].failed_step # ""
            /\ \E k \in 1..Len(jobs[j].log) :
                   /\ jobs[j].log[k][1] = "[FAIL]"
                   /\ jobs[j].log[k][2] # ""

\* C13 witness: a worker that was failing while a Retry reset the job has
\* marked it failed: the log starts with the line of SetFailed.
C13_Witness ==
    /\ retries >= 1
    /\ \E j \in DOMAIN jobs :
           /\ jobs[j].status = ProvisionStatusFailed
           /\ jobs[j].failed_step = "health_check"
           /\ Len(jobs[j].log) >= 1
           /\ jobs[j].log[1][1] = "[FAIL]"

\* ---------------------------------------------------- retention properties
\* the positions of the samples of bw that are not older than cutoff
Recent(bw, cutoff) == {k \in 1..Len(bw) : bw[k].recorded_at >= cutoff}

\* C14: after a purge with cutoff C no sample with recorded_at < C is stored,
\* and the samples with recorded_at >= C that were stored before it are all
\* still there, unchanged and in their order, and nothing else is.
C14_PurgeExact ==
    [][resp'.op = "purge" =>
         LET C == resp'.cutoff
             kept == Recent(bandwidth, C)
         IN /\ \A k \in 1..Len(bandwidth') : bandwidth'[k].recorded_at >= C
            /\ Len(bandwidth') = Cardinality(kept)
            /\ \A k \in kept :
                   bandwidth'[Cardinality({j \in kept : j <= k})] = bandwidth[k]
      ]_vars

\* C14 witness: a purge has just returned and two samples are stored, one
\* recorded exactly at the cutoff and one after it.
C14_Witness ==
    /\ resp.op = "purge"
    /\ Len(bandwidth) = MaxStoreSamples - 1
    /\ \E k \in 1..Len(bandwidth) : bandwidth[k].recorded_at = resp.cutoff
    /\ \E k \in 1..Len(bandwidth) : bandwidth[k].recorded_at > resp.cutoff

\* C15: while the master runs, every stored sample was recorded at most
\* 7 days and one purge period before now.
C15_Retention ==
    masterUp =>
        \A k \in 1..Len(bandwidth) :
            now - bandwidth[k].recorded_at <= RetentionHours + PurgePeriodHours

\* ------------------------------------------------ agent process properties
\* C16: once the shutdown signal has arrived every task context is
\* cancelled, and when the agent process has exited no executor is left
\* that has not returned.
C16_ShutdownWaits ==
    /\ rootCancelled => \A e \in executors : e.cancelled
    /\ agentPhase = "exited" => executors = {}

\* ----------------------------------------------------- executor properties
\* C17: a Run that has returned after its deadline passed or its context
\* was cancelled returned nil, and a Run that returned an error was given an
\* invalid task (an empty target url).
C17_RunResult ==
    exec.pc = "returned" =>
        /\ exec.ctx # "live" => exec.result = "nil"
        /\ exec.result # "nil" => exec.task.target_url = ""

\* --------------------------------------------------- credential properties
\* a response body for one credential carries no payload: none of its
\* fields holds the payload of a stored credential
NoPayload(b) ==
    \A f \in DOMAIN b \ {"id"} :
        \A i \in DOMAIN credentials : b[f] # credentials[i].payload

\* C18: the response of credential create and every entry of the response
\* of credential list carry no payload of any stored credential.
C18_PayloadHidden ==
    /\ resp.op = "create_credential" => NoPayload(resp.body)
    /\ resp.op = "list_credentials" =>
           \A k \in 1..Len(resp.body) : NoPayload(resp.body[k])

\* C18 witness: a list has just returned a credential whose stored payload
\* is not empty.
C18_Witness ==
    /\ resp.op = "list_credentials"
    /\ Len(resp.body) >= 1
    /\ resp.body[1].id \in DOMAIN credentials
    /\ credentials[resp.body[1].id].payload # ""

\* ------------------------------------------------- token bucket properties
\* the smaller of two float64 values that are not NaN
Min(a, b) == IF a <= b THEN a ELSE b

\* C19: the capacity of the bucket is its burst multiplier times its rate,
\* and 64 KiB when that is less.
C19_Capacity ==
    bucket.made =>
        bucket.capacity = IF FLt(FMul(burst, bucket.rate), MinCapacity)
                          THEN MinCapacity ELSE FMul(burst, bucket.rate)

\* C20: the tokens stay between 0 and the capacity; SetRate sets the rate
\* and a capacity that goes with it in one step and leaves the smaller of
\* the tokens and the new capacity; a Wait or TryConsume that succeeds
\* leaves the tokens of the fill less exactly n, one that does not succeed
\* takes nothing.
C20_Tokens ==
    [][bucket'.made =>
         /\ bucket'.tokens # NaN
         /\ 0 <= bucket'.tokens /\ bucket'.tokens <= bucket'.capacity
         /\ resp'.op = "set_rate" =>
                /\ bucket'.rate = resp'.rate * BytesPerRateUnit
                /\ bucket'.capacity = SetRateBurst * bucket'.rate
                /\ bucket'.tokens = Min(bucket.tokens, bucket'.capacity)
         /\ resp'.op \in {"wait", "try_consume"} =>
                LET filled == Min(bucket.capacity,
                                  FAdd(bucket.tokens,
                                       FMul(resp'.elapsed, bucket.rate)))
                IN /\ bucket'.rate = bucket.rate
                   /\ bucket'.capacity = bucket.capacity
                   /\ resp'.ok => /\ filled >= resp'.n
                                  /\ bucket'.tokens = FSub(filled, resp'.n)
                   /\ (~resp'.ok /\ resp'.op = "try_consume") =>
                          filled < resp'.n /\ bucket'.tokens = filled
                   /\ (~resp'.ok /\ resp'.op = "wait") => bucket' = bucket
      ]_vars

\* C21: a call of Wait whose context was cancelled while it was asleep
\* returns the context's error (never nil), and a Wait that returns the
\* error takes no tokens.
C21_WaitCancel ==
    [][(resp'.op = "wait" /\ resp'.ctx = "done") =>
           ~resp'.ok /\ bucket' = bucket]_vars

\* a multiplier lies in [0, 1]
InUnit(m) == m.den > 0 /\ 0 <= m.num /\ m.num <= m.den

\* C22: for every task, elapsed time and list of profile points the
\* multiplier RateForTask returns lies between 0 and 1.
C22_ShapeBounds ==
    resp.op = "rate_for_task" => InUnit(resp.mult)

\* two multipliers are the same number
SameFrac(a, b) == a.den > 0 /\ b.den > 0 /\ a.num * b.den = b.num * a.den

\* the duration D of the curve of task t
CurveD(t) ==
    IF t.end_at # NoTime /\ t.started_at # NoTime
    THEN t.end_at - t.started_at ELSE t.duration_sec

\* C23: for the flat and ramp distributions, at an elapsed time e >= 0, the
\* multiplier is e/U when e < U, max(0, (D - e)/R) when R > 0, D > 0 and
\* e > D - R, and 1 otherwise; D=60, U=10, R=10 gives 0, 1/2, 1, 1, 1/2, 0
\* at 0, 5, 10, 30, 55, 60 s, and U = R = 0 gives 1.
C23_FlatRamp ==
    (/\ resp.op = "rate_for_task"
     /\ resp.task.distribution \in {"flat", "ramp"}
     /\ resp.elapsed >= 0) =>
        LET t == resp.task
            e == resp.elapsed
            U == t.ramp_up_sec
            R == t.ramp_down_sec
            D == CurveD(t)
            m == resp.mult
        IN /\ e < U => SameFrac(m, Frac(e, U))
           /\ (e >= U /\ R > 0 /\ D > 0 /\ e > D - R) =>
                  SameFrac(m, IF D - e > 0 THEN Frac(D - e, R) ELSE Frac(0, 1))
           /\ (e >= U /\ ~(R > 0 /\ D > 0 /\ e > D - R)) => SameFrac(m, Frac(1, 1))
           /\ (D = 60 /\ U = 10 /\ R = 10) =>
                  /\ e \in {0, 60} => SameFrac(m, Frac(0, 1))
                  /\ e \in {5, 55} => SameFrac(m, Frac(1, 2))
                  /\ e \in {10, 30} => SameFrac(m, Frac(1, 1))
           /\ (U = 0 /\ R = 0) => SameFrac(m, Frac(1, 1))

\* C23 witness: the middle of the ramp-down of the 60 s curve with 10 s
\* ramps has been computed as one half.
C23_Witness ==
    /\ resp.op = "rate_for_task"
    /\ resp.task.distribution = "ramp"
    /\ CurveD(resp.task) = 60
    /\ resp.task.ramp_up_sec = 10 /\ resp.task.ramp_down_sec = 10
    /\ resp.elapsed = 55
    /\ resp.mult = Frac(5, 10)

\* C24: a visit of the scheduler's tick never takes a task whose stored
\* status is stopped to running, pending or dispatched, whatever an
\* operator's stop has done between the tick's List and the visit.
C24_TickStopRace ==
    [][(tickQueue # <<>> /\ tickQueue' = Tail(tickQueue)) =>
           \A id \in DOMAIN tasks :
               tasks[id].status = TaskStatusStopped =>
                   tasks'[id].status = TaskStatusStopped]_vars

\* a step in which the scheduler's tick reads its list
TickLists == tickQueue = <<>> /\ tickQueue' # <<>>

\* a step in which the scheduler's tick visits the next row of its list
TickVisits == tickQueue # <<>> /\ tickQueue' = Tail(tickQueue)

\* C25: the tick decides to start a row it lists exactly when the row is
\* pending or dispatched and start_at is null or not after now; the visit of
\* such a row writes status running and started_at = now and nothing else,
\* the visit of any other row starts nothing, and no visit starts a task
\* whose start_at is still in the future.
C25_TickStarts ==
    [][/\ TickLists =>
            \A k \in DOMAIN tickQueue' :
                LET t == tasks[tickQueue'[k].id]
                IN tickQueue'[k].branch = "markRunning" <=>
                       /\ t.status \in {TaskStatusPending, TaskStatusDispatched}
                       /\ (t.start_at = NoTime \/ t.start_at <= now)
       /\ TickVisits =>
            LET e == Head(tickQueue)
            IN /\ e.branch = "markRunning" =>
                      /\ SameButTask(tasks, tasks', e.id)
                      /\ RowWith(tasks[e.id], tasks'[e.id], TaskStatusRunning,
                                 "started_at", now)
                      /\ (tasks[e.id].start_at = NoTime \/ tasks[e.id].start_at <= now)
               /\ e.branch # "markRunning" =>
                      \A id \in DOMAIN tasks :
                          tasks'[id].status = TaskStatusRunning =>
                              tasks[id] = tasks'[id]
      ]_vars

\* C25 witness: a task whose start_at has come is running, started by the
\* tick at the time of that tick.
C25_Witness ==
    \E id \in DOMAIN tasks :
        /\ tasks[id].start_at # NoTime
        /\ tasks[id].status = TaskStatusRunning
        /\ tasks[id].started_at = now
        /\ tasks[id].started_at >= tasks[id].start_at
        /\ nextTick = now + TickPeriod
        /\ resp = NoResp

\* one of the stop conditions holds for row t at time n
StopDue(t, n) ==
    \/ (t.end_at # NoTime /\ t.end_at < n)
    \/ (t.duration_sec > 0 /\ t.started_at # NoTime /\ n - t.started_at > t.duration_sec)
    \/ (t.total_bytes_target > 0 /\ t.total_bytes_done >= t.total_bytes_target)

\* C26: the tick decides to stop a row it lists exactly when the row is
\* running and a stop condition holds (end_at < now, or duration_sec > 0 and
\* now - started_at > duration_sec, or total_bytes_target > 0 and
\* total_bytes_done >= total_bytes_target); the visit of such a row writes
\* status stopped and finished_at = now and nothing else; the visit of a
\* running row with no stop condition, and of a terminal row, changes nothing.
C26_TickStops ==
    [][/\ TickLists =>
            \A k \in DOMAIN tickQueue' :
                LET t == tasks[tickQueue'[k].id]
                IN /\ tickQueue'[k].branch = "markStopped" <=>
                          (t.status = TaskStatusRunning /\ StopDue(t, now))
                   /\ (IsTerminal(t.status) \/ (t.status = TaskStatusRunning /\ ~StopDue(t, now)))
                          => tickQueue'[k].branch = "skip"
       /\ TickVisits =>
            LET e == Head(tickQueue)
            IN /\ e.branch = "markStopped" =>
                      /\ SameButTask(tasks, tasks', e.id)
                      /\ RowWith(tasks[e.id], tasks'[e.id], TaskStatusStopped,
                                 "finished_at", now)
               /\ e.branch = "skip" => tasks' = tasks
      ]_vars

\* C26 witness: a task has been stopped by the tick because its duration
\* had run out, with finished_at the time of the tick.
C26_Witness ==
    \E id \in DOMAIN tasks :
        /\ tasks[id].status = TaskStatusStopped
        /\ tasks[id].end_at = NoTime /\ tasks[id].total_bytes_target = 0
        /\ tasks[id].duration_sec > 0
        /\ tasks[id].finished_at = now
        /\ tasks[id].finished_at - tasks[id].started_at > tasks[id].duration_sec
        /\ resp = NoResp

\* task row t has the duration as its only stop condition
DurationOnly(t) ==
    t.duration_sec > 0 /\ t.end_at = NoTime /\ t.total_bytes_target = 0

\* C27: a task whose only stop condition is duration_sec = D > 0, and which
\* nothing but the scheduler stops, is marked stopped by the scheduler once
\* it is running, within one tick period after D has elapsed:
\* D <= finished_at - started_at <= D + 5 s.
C27_DurationStop ==
    /\ [][TickVisits =>
            \A id \in DOMAIN tasks :
                (/\ DurationOnly(tasks[id])
                 /\ tasks[id].status = TaskStatusRunning
                 /\ tasks'[id].status = TaskStatusStopped) =>
                    /\ tasks'[id].finished_at - tasks'[id].started_at >= tasks[id].duration_sec
                    /\ tasks'[id].finished_at - tasks'[id].started_at
                           <= tasks[id].duration_sec + TickPeriod]_vars
    /\ \A id \in TaskIds :
           (/\ TaskFound(id)
            /\ DurationOnly(tasks[id])
            /\ tasks[id].status = TaskStatusRunning
            /\ tasks[id].started_at + tasks[id].duration_sec + TickPeriod <= MaxSchedClock)
           ~> (TaskFound(id) /\ tasks[id].status = TaskStatusStopped
               /\ tasks[id].finished_at - tasks[id].started_at
                      <= tasks[id].duration_sec + TickPeriod)

\* C27 witness: a task of duration 3 s started at second 2 has been stopped
\* by the tick of second 10, a full tick period after its duration ran out.
C27_Witness ==
    \E id \in DOMAIN tasks :
        /\ DurationOnly(tasks[id])
        /\ tasks[id].status = TaskStatusStopped
        /\ tasks[id].started_at = 2
        /\ tasks[id].finished_at = tasks[id].started_at + tasks[id].duration_sec + TickPeriod

\* C28: when a pull has been applied, the keys of the running map (and of
\* the meters) are the task ids of the response; every task of the response
\* that had no entry has a new executor that is not cancelled, every entry
\* whose task is not in the response is gone and its executor is cancelled,
\* and the entries that stay keep their executor.
C28_PullReconciles ==
    [][resp'.op = "agent_pull" =>
         /\ DOMAIN running' = resp'.tasks
         /\ meters' = (meters \cup resp'.tasks) \ (DOMAIN running \ resp'.tasks)
         /\ \A id \in resp'.tasks \ DOMAIN running :
                \E e \in executors' \ executors :
                    /\ e.task = id /\ e.n = running'[id] /\ e.n >= nextExec
                    /\ e.cancelled <=> rootCancelled
         /\ \A id \in resp'.tasks \cap DOMAIN running : running'[id] = running[id]
         /\ \A id \in DOMAIN running \ resp'.tasks :
                \A e \in executors' : e.n = running[id] => e.cancelled
         /\ Cardinality(executors' \ executors)
                <= Cardinality(resp'.tasks \ DOMAIN running)
                     + Cardinality(DOMAIN running \ resp'.tasks)
      ]_vars

\* C28 witness: one pull has started an executor for task 2 and dropped the
\* entry of task 1, whose executor is cancelled and has not returned yet.
C28_Witness ==
    /\ resp.op = "agent_pull"
    /\ resp.tasks = {2}
    /\ DOMAIN running = {2}
    /\ \E e \in executors : e.task = 1 /\ e.cancelled
    /\ \E e \in executors : e.task = 2 /\ ~e.cancelled /\ e.n = running[2]

\* C30: the executors that have not returned and are not cancelled belong
\* to different tasks.
C30_OneExecutor ==
    \A e1, e2 \in executors :
        (e1.task = e2.task /\ ~e1.cancelled /\ ~e2.cancelled) => e1 = e2

\* C29: the Master's answer to a pull leaves out every task that is
\* terminal when it answers, and when the agent has applied an answer, a
\* task that the answer left out has no entry in the running map and no
\* executor of the task is left that is not cancelled.
C29_TerminalCancelled ==
    [][/\ \A l \in SUBSET TaskIds :
            Admitted(PullResponse(l)) =>
                \A id \in DOMAIN tasks : IsTerminal(tasks[id].status) => id \notin l
       /\ resp'.op = "agent_pull" =>
            \A id \in DOMAIN tasks \ resp'.tasks :
                /\ id \notin DOMAIN running'
                /\ \A e \in executors' : e.task = id => e.cancelled]_vars

\* C31: a pull hands a task that is pending or dispatched to an executor
\* only when the task's start condition holds: start_at is null or not
\* after now.
C31_NoEarlyStart ==
    [][resp'.op = "agent_pull" =>
         \A id \in resp'.tasks \ DOMAIN running :
             tasks[id].status \in {TaskStatusPending, TaskStatusDispatched} =>
                 (tasks[id].start_at = NoTime \/ tasks[id].start_at <= now)]_vars

\* C32: when a report of the task's reporter has been delivered after the
\* executor downloaded N > 0 bytes, total_bytes_done of the task is N.
C32_ReportCarriesBytes ==
    [][(resp'.op = "record_metrics" /\ exec.pc # "idle" /\ exec.totalBytes > 0) =>
           /\ tasks'[resp'.id].total_bytes_done = exec.totalBytes
           /\ tasks'[resp'.id].total_bytes_done > 0]_vars

\* a step that is the List of an offline sweep
DetectLists == resp'.op = "detect_offline" /\ resp' # resp

\* a step that is one UpdateStatus of an offline sweep
DetectVisits == Sweeping # {} /\ Sweeping' # Sweeping

\* the agents that are online with a heartbeat older than the timeout
StaleNow == {id \in DOMAIN agents : /\ agents[id].status = AgentStatusOnline
                                    /\ agents[id].last_heartbeat < now - HeartbeatTimeout}

\* C33: the sweep's List writes nothing and picks exactly the agents that are
\* online with last_heartbeat < now - 30 s; each UpdateStatus of the sweep
\* writes one picked agent only, sets its status to offline and writes back
\* the last_heartbeat the sweep read, so that the stored last_heartbeat is
\* unchanged when nothing else wrote it since the List; no other agent and no
\* other column is touched.  An UpdateStatus for an agent that was deleted
\* since the List writes nothing.
C33_SweepFrame ==
    [][/\ DetectLists =>
            /\ agents' = agents
            /\ \A r \in Sweeping' :
                   {r.queue[k].id : k \in DOMAIN r.queue} = StaleNow
            /\ (Sweeping' = {}) <=> (StaleNow = {})
       /\ DetectVisits =>
            \E r \in Sweeping :
                LET a == Head(r.queue)
                IN /\ DOMAIN agents' = DOMAIN agents
                   /\ \A id \in DOMAIN agents \ {a.id} : agents'[id] = agents[id]
                   /\ a.id \in DOMAIN agents =>
                          /\ agents'[a.id] =
                                 [agents[a.id] EXCEPT !.status = AgentStatusOffline,
                                                      !.last_heartbeat = a.row.last_heartbeat]
                          /\ agents[a.id].last_heartbeat = a.row.last_heartbeat =>
                                 agents'[a.id].last_heartbeat = agents[a.id].last_heartbeat
      ]_vars

\* C33 witness: a finished sweep has left one agent offline, with the
\* heartbeat of more than 30 s ago it had, and another agent online.
C33_Witness ==
    /\ Sweeping = {}
    /\ \E id \in DOMAIN agents :
           /\ agents[id].status = AgentStatusOffline
           /\ agents[id].last_heartbeat # NoTime
           /\ agents[id].last_heartbeat < now - HeartbeatTimeout
    /\ \E id \in DOMAIN agents : agents[id].status = AgentStatusOnline

\* the stored last_heartbeat of the agent is the timestamp of an accepted
\* heartbeat whose UpdateStatus is done
HeartbeatStored(id) ==
    /\ id \in DOMAIN agents
    /\ \/ \E r \in BagToSet(inflight) :
              /\ r.op = "heartbeat" /\ r.id = id
              /\ r.at # NoTime /\ r.at = agents[id].last_heartbeat
       \/ \E k \in DOMAIN bandwidth :
              /\ bandwidth[k].agent_id = id
              /\ bandwidth[k].recorded_at = agents[id].last_heartbeat

\* C34: an UpdateStatus of the sweep on an agent whose stored last_heartbeat
\* is that of an accepted heartbeat does not move last_heartbeat backwards,
\* and does not mark the agent offline while the stored last_heartbeat is
\* within the 30 s timeout.
C34_HeartbeatKept ==
    [][DetectVisits =>
           \A r \in Sweeping :
               LET id == Head(r.queue).id
               IN HeartbeatStored(id) =>
                      /\ agents'[id].last_heartbeat >= agents[id].last_heartbeat
                      /\ agents[id].last_heartbeat >= now - HeartbeatTimeout =>
                             agents'[id].status # AgentStatusOffline
      ]_vars

\* the steps of a provisioning job, in order
StepOrder == <<"ssh_check", "download_binary", "install_service", "health_check">>

\* the step after step s, "" after the last
StepAfter(s) ==
    LET ks == {k \in 1..(Len(StepOrder) - 1) : StepOrder[k] = s}
    IN IF ks = {} THEN "" ELSE StepOrder[(CHOOSE k \in ks : TRUE) + 1]

\* the change of a job row from j to j2 is one edge of the state machine
JobEdge(j, j2, byRetry) ==
    \/ /\ j.status = ProvisionStatusPending
       /\ j2.status = ProvisionStatusRunning /\ j2.current_step = StepOrder[1]
    \/ /\ j.status = ProvisionStatusRunning /\ j2.status = ProvisionStatusRunning
       /\ j2.current_step = StepAfter(j.current_step)
    \/ /\ j.status = ProvisionStatusRunning /\ j.current_step = "health_check"
       /\ j2.status = ProvisionStatusSuccess
    \/ /\ j.status = ProvisionStatusRunning
       /\ j2.status = ProvisionStatusFailed /\ j2.failed_step = j.current_step
    \/ /\ j.status = ProvisionStatusFailed /\ byRetry
       /\ j2.status = ProvisionStatusPending /\ j2.current_step = "created"

\* C35: every step that changes the (status, current_step) of a job is an
\* edge of the state machine: pending to running(ssh_check), running(step) to
\* running(next step), running(health_check) to success, running(step) to
\* failed with failed_step = step, failed to pending by a retry; a job in
\* success does not change.
C35_StateMachine ==
    [][\A id \in DOMAIN jobs \cap DOMAIN jobs' :
           <<jobs'[id].status, jobs'[id].current_step>>
               # <<jobs[id].status, jobs[id].current_step>> =>
           JobEdge(jobs[id], jobs'[id], resp'.op = "retry")
      ]_vars

\* the jobs of host ip that are pending or running
InProgressJobs(ip) ==
    {id \in DOMAIN jobs : /\ jobs[id].host_ip = ip
                          /\ jobs[id].status \in {ProvisionStatusPending,
                                                  ProvisionStatusRunning}}

\* C36: for each host_ip at most one job is pending or running.
C36_OneJobPerHost ==
    \A id \in DOMAIN jobs : Cardinality(InProgressJobs(jobs[id].host_ip)) <= 1

\* C37: at most one worker runs for a job id.
C37_OneWorkerPerJob == \A id \in JobIds : WorkersOf(id) <= 1

\* job id is pending or running
JobInFlight(id) ==
    /\ id \in DOMAIN jobs
    /\ jobs[id].status \in {ProvisionStatusPending, ProvisionStatusRunning}

\* job id has a final status
JobFinal(id) ==
    /\ id \in DOMAIN jobs
    /\ jobs[id].status \in {ProvisionStatusSuccess, ProvisionStatusFailed}

\* C38: a job that is pending or running eventually has the status success
\* or failed.
C38_JobEnds == \A id \in JobIds : JobInFlight(id) ~> JobFinal(id)

\* C39: when the subprocess of the YouTube executor exits while the context
\* is live (no deadline, no cancel), Run does not return: it goes on to spawn
\* the subprocess again.
C39_Respawn ==
    [][(exec.pc = "wait" /\ exec.ctx = "live") => exec'.pc # "returned"]_vars

\* C40: with a rate above 0 and a context that is never cancelled, a Wait
\* of the static executor that went to sleep eventually returns nil.
C40_WaitReturns ==
    (waiters # EmptyBag /\ FGt(bucket.rate, 0))
        ~> (waiters = EmptyBag /\ resp.op = "wait" /\ resp.ok)

====
